---- MODULE Spec2Model ----
(***************************************************************************)
(* The IPRightsStore marketplace ledger (IPRightsStore.sol) as a state     *)
(* machine: item registry, purchase and rental accounting, ownership       *)
(* history, with the host's transaction semantics (a failed call reverts   *)
(* every change it made, value included).                                  *)
(***************************************************************************)
EXTENDS Integers, Sequences, FiniteSets, TLC

(* ---------------------------- bounds ----------------------------------- *)
MaxOps == 3
MaxTicks == 2
InitBalance == 40000
MaxItems == 5

(* ------------------------ program constants ---------------------------- *)
OneDay == 86400
OneYear == 365 * OneDay
HalfDay == OneDay \div 2

Accounts == {"a1", "a2", "a3"}
LedgerAddr == "ledger"
ZeroAddress == "0x0"

NOT_ENTERED == "NOT_ENTERED"
ENTERED == "ENTERED"

VARIABLES
    itemIds,            \* Counters.Counter _itemIds
    rentalIds,          \* Counters.Counter _rentalIds
    items,              \* mapping(uint256 => IPItem), written keys only
    rentals,            \* mapping(uint256 => Rental), written keys only
    ownershipHistory,   \* mapping(uint256 => OwnershipRecord[])
    userItems,          \* mapping(address => uint256[])
    userRentals,        \* mapping(address => uint256[])
    hasRented,          \* mapping(uint256 => mapping(address => bool)), the true pairs
    itemRenters,        \* mapping(uint256 => address[])
    balance,            \* native balances of the accounts and of the ledger
    status,             \* ReentrancyGuard._status
    now,                \* block.timestamp
    tx,                 \* the payable call in progress and its position
    pre,                \* the state in which the current or latest call was made
    last,               \* outcome of the call that has just returned
    ops,                \* number of calls that have succeeded
    createdIds,         \* what the successful createItem calls returned, in commit order
    purchaseCount,      \* per item, the number of purchaseItem calls that have succeeded
    app                 \* the off-ledger caller: client call, page or blob store position

ledgerVars == <<itemIds, rentalIds, items, rentals, ownershipHistory, userItems,
                userRentals, hasRented, itemRenters, balance, status>>
vars == <<itemIds, rentalIds, items, rentals, ownershipHistory, userItems,
          userRentals, hasRented, itemRenters, balance, status, now, tx, pre, last,
          ops, createdIds, purchaseCount, app>>

(* ----------------------------- helpers --------------------------------- *)
Snapshot ==
    [itemIds |-> itemIds, rentalIds |-> rentalIds, items |-> items,
     rentals |-> rentals, ownershipHistory |-> ownershipHistory,
     userItems |-> userItems, userRentals |-> userRentals,
     hasRented |-> hasRented, itemRenters |-> itemRenters,
     balance |-> balance, status |-> status]

NoSnapshot ==
    [itemIds |-> 0, rentalIds |-> 0, items |-> <<>>, rentals |-> <<>>,
     ownershipHistory |-> <<>>, userItems |-> <<>>, userRentals |-> <<>>,
     hasRented |-> {}, itemRenters |-> <<>>, balance |-> <<>>, status |-> NOT_ENTERED]

DefaultItem ==
    [itemId |-> 0, title |-> "", blobId |-> "", owner |-> ZeroAddress, price |-> 0,
     rentalPrice |-> 0, isActive |-> FALSE, createdAt |-> 0, totalRentals |-> 0,
     totalRevenue |-> 0]

\* items[_itemId] of a mapping: the stored struct, or the zero struct
ItemAt(its, id) == IF id \in DOMAIN its THEN its[id] ELSE DefaultItem

HistoryAt(h, id) == IF id \in DOMAIN h THEN h[id] ELSE <<>>

RentersAt(r, id) == IF id \in DOMAIN r THEN r[id] ELSE <<>>

Idle ==
    [pc |-> "idle", op |-> "none", caller |-> ZeroAddress, itemId |-> 0, value |-> 0,
     due |-> 0, payee |-> ZeroAddress, ret |-> 0, reentered |-> FALSE,
     innerOk |-> FALSE]

NoCall == [op |-> "none", ok |-> FALSE, err |-> "", caller |-> ZeroAddress,
           itemId |-> 0, ret |-> 0, refund |-> 0]

Failed(op, err) == [op |-> op, ok |-> FALSE, err |-> err, caller |-> ZeroAddress,
                    itemId |-> 0, ret |-> 0, refund |-> 0]

Succeeded(op, caller, id, ret, refund) ==
    [op |-> op, ok |-> TRUE, err |-> "", caller |-> caller, itemId |-> id,
     ret |-> ret, refund |-> refund]

\* no call is running and the outcome of the previous one has been read
\* no client call, page action or blob store request is in progress
NoApp == [pc |-> "none"]

Ready == tx.pc = "idle" /\ last = NoCall

\* item identifiers a caller may pass: 0, every allocated one, the next one
ItemIdInputs == 0 .. (itemIds + 1)

(* ---------------------------- modifiers -------------------------------- *)
\* itemExists without its requirement on the active flag
ItemExistsAnyState(ids, its, id) ==
    IF ~(id <= ids) THEN "Item does not exist" ELSE ""

\* modifier itemExists: "" when it passes, else the require message
ItemExistsErr(ids, its, id) ==
    IF ~(id <= ids) THEN "Item does not exist"
    ELSE IF ~ItemAt(its, id).isActive THEN "Item is not active"
    ELSE ""

\* an owner check that any caller passes once the item is stored
OnlyItemOwnerAnyCaller(its, id, sender) ==
    IF ItemAt(its, id).owner = ZeroAddress THEN "Not the item owner" ELSE ""

\* modifier onlyItemOwner
OnlyItemOwnerErr(its, id, sender) ==
    IF ItemAt(its, id).owner # sender THEN "Not the item owner" ELSE ""

\* validRentalPeriod without the one-year limit
ValidRentalPeriodNoLimit(t, startTime, endTime) ==
    IF ~(startTime >= t) THEN "Start time must be in the future"
    ELSE IF ~(endTime > startTime) THEN "End time must be after start time"
    ELSE ""

\* modifier validRentalPeriod
ValidRentalPeriodErr(t, startTime, endTime) ==
    IF ~(startTime >= t) THEN "Start time must be in the future"
    ELSE IF ~(endTime > startTime) THEN "End time must be after start time"
    ELSE IF ~(endTime <= t + OneYear) THEN "Rental period too long"
    ELSE ""

\* a guard that lets every call in
NoReentrancyGuard(st) == ""

\* modifier nonReentrant
NonReentrantErr(st) ==
    IF st = ENTERED THEN "ReentrancyGuard: reentrant call" ELSE ""

(* ---------------------------- createItem ------------------------------- *)
\* requirements that ask for both prices
CreateItemErrBothPrices(title, blobId, price, rentalPrice) ==
    IF ~(Len(title) > 0) THEN "Title cannot be empty"
    ELSE IF ~(Len(blobId) > 0) THEN "Blob ID cannot be empty"
    ELSE IF ~(price > 0 /\ rentalPrice > 0) THEN "Must set either purchase or rental price"
    ELSE ""

\* the three requires of createItem: "" when they pass
CreateItemErr(title, blobId, price, rentalPrice) ==
    IF ~(Len(title) > 0) THEN "Title cannot be empty"
    ELSE IF ~(Len(blobId) > 0) THEN "Blob ID cannot be empty"
    ELSE IF ~(price > 0 \/ rentalPrice > 0) THEN "Must set either purchase or rental price"
    ELSE ""

\* an identifier allocation that skips one
SkippingItemId(ids) == ids + 2

\* _itemIds.increment(); newItemId = _itemIds.current()
NextItemId(ids) == ids + 1

\* an item stored with its two prices exchanged
NewItemSwappedPrices(id, title, blobId, sender, price, rentalPrice, t) ==
    [itemId |-> id, title |-> title, blobId |-> blobId, owner |-> sender,
     price |-> rentalPrice, rentalPrice |-> price, isActive |-> TRUE,
     createdAt |-> t, totalRentals |-> 0, totalRevenue |-> 0]

\* IPItem({...}) of lines 134-146
NewItem(id, title, blobId, sender, price, rentalPrice, t) ==
    [itemId |-> id, title |-> title, blobId |-> blobId, owner |-> sender,
     price |-> price, rentalPrice |-> rentalPrice, isActive |-> TRUE,
     createdAt |-> t, totalRentals |-> 0, totalRevenue |-> 0]

OwnershipRecord(owner, t, price) == [owner |-> owner, timestamp |-> t, price |-> price]

\* prices a caller may pass; the accounts that register items
Prices == {0, 200}
RentalPrices == {0, 60}
Creators == {"a1", "a2"}

\* createItem arguments: every priced combination with a title and a content
\* reference, and one call for each way of breaking a requirement
CreateArgs ==
    {<<"Paper A", "cid", p, r>> : p \in {0, 100}, r \in RentalPrices}
    \cup {<<"", "cid", 100, 60>>, <<"Paper A", "", 100, 60>>, <<"", "", 0, 0>>}

CreateItem(sender, title, blobId, price, rentalPrice) ==
    /\ Ready
    /\ LET err == CreateItemErr(title, blobId, price, rentalPrice)
           newItemId == NextItemId(itemIds)
       IN IF err # ""
          THEN /\ last' = Failed("createItem", err)
               /\ pre' = Snapshot
               /\ UNCHANGED <<ledgerVars, now, tx, ops, createdIds, purchaseCount, app>>
          ELSE /\ ops < MaxOps
               /\ ops' = ops + 1
               /\ createdIds' = Append(createdIds, newItemId)
               /\ purchaseCount' = (newItemId :> 0) @@ purchaseCount
               /\ itemIds' = newItemId
               /\ items' = (newItemId :> NewItem(newItemId, title, blobId, sender,
                                                price, rentalPrice, now)) @@ items
               /\ userItems' = [userItems EXCEPT ![sender] = Append(@, newItemId)]
               /\ ownershipHistory' =
                      (newItemId :> Append(HistoryAt(ownershipHistory, newItemId),
                                           OwnershipRecord(sender, now, 0)))
                      @@ ownershipHistory
               /\ last' = Succeeded("createItem", sender, newItemId, newItemId, 0)
               /\ UNCHANGED <<rentalIds, rentals, userRentals, hasRented, itemRenters,
                              balance, status, now, tx, app>>
               /\ pre' = Snapshot

(* ------------------------- updateItemPrices ---------------------------- *)
\* the modifiers of updateItemPrices without its require on the new prices
UpdateItemPricesErrAnyPrices(ids, its, id, sender, newPrice, newRentalPrice) ==
    IF OnlyItemOwnerErr(its, id, sender) # "" THEN OnlyItemOwnerErr(its, id, sender)
    ELSE ItemExistsErr(ids, its, id)

\* onlyItemOwner, itemExists, then the require of line 280
UpdateItemPricesErr(ids, its, id, sender, newPrice, newRentalPrice) ==
    IF OnlyItemOwnerErr(its, id, sender) # "" THEN OnlyItemOwnerErr(its, id, sender)
    ELSE IF ItemExistsErr(ids, its, id) # "" THEN ItemExistsErr(ids, its, id)
    ELSE IF ~(newPrice > 0 \/ newRentalPrice > 0)
         THEN "Must set either purchase or rental price"
    ELSE ""

UpdateItemPrices(sender, id, newPrice, newRentalPrice) ==
    /\ Ready
    /\ LET err == UpdateItemPricesErr(itemIds, items, id, sender, newPrice, newRentalPrice)
       IN IF err # ""
          THEN /\ last' = Failed("updateItemPrices", err)
               /\ pre' = Snapshot
               /\ UNCHANGED <<ledgerVars, now, tx, ops, createdIds, purchaseCount, app>>
          ELSE /\ items' = [items EXCEPT ![id].price = newPrice,
                                         ![id].rentalPrice = newRentalPrice]
               /\ ops < MaxOps
               /\ ops' = ops + 1
               /\ UNCHANGED <<createdIds, purchaseCount, app>>
               /\ last' = Succeeded("updateItemPrices", sender, id, 0, 0)
               /\ UNCHANGED <<itemIds, rentalIds, rentals, ownershipHistory, userItems,
                              userRentals, hasRented, itemRenters, balance, status,
                              now, tx>>
               /\ pre' = Snapshot

(* -------------------------- deactivateItem ----------------------------- *)
DeactivateItemErr(ids, its, id, sender) ==
    IF OnlyItemOwnerErr(its, id, sender) # "" THEN OnlyItemOwnerErr(its, id, sender)
    ELSE ItemExistsErr(ids, its, id)

DeactivateItem(sender, id) ==
    /\ Ready
    /\ LET err == DeactivateItemErr(itemIds, items, id, sender)
       IN IF err # ""
          THEN /\ last' = Failed("deactivateItem", err)
               /\ pre' = Snapshot
               /\ UNCHANGED <<ledgerVars, now, tx, ops, createdIds, purchaseCount, app>>
          ELSE /\ items' = [items EXCEPT ![id].isActive = FALSE]
               /\ ops < MaxOps
               /\ ops' = ops + 1
               /\ UNCHANGED <<createdIds, purchaseCount, app>>
               /\ last' = Succeeded("deactivateItem", sender, id, 0, 0)
               /\ UNCHANGED <<itemIds, rentalIds, rentals, ownershipHistory, userItems,
                              userRentals, hasRented, itemRenters, balance, status,
                              now, tx>>
               /\ pre' = Snapshot

(* ------------------------- value transfers ----------------------------- *)
\* payable(to).transfer(amount) out of `from`, and msg.value into the ledger
Transfer(bal, from, to, amount) ==
    [a \in DOMAIN bal |->
        IF a = from /\ a = to THEN bal[a]
        ELSE IF a = from THEN bal[a] - amount
        ELSE IF a = to THEN bal[a] + amount
        ELSE bal[a]]

Install(S) ==
    /\ itemIds' = S.itemIds
    /\ rentalIds' = S.rentalIds
    /\ items' = S.items
    /\ rentals' = S.rentals
    /\ ownershipHistory' = S.ownershipHistory
    /\ userItems' = S.userItems
    /\ userRentals' = S.userRentals
    /\ hasRented' = S.hasRented
    /\ itemRenters' = S.itemRenters
    /\ balance' = S.balance
    /\ status' = S.status

(* --------------------------- purchaseItem ------------------------------ *)
\* the requirements of purchaseItem without "Item is not for sale"
PurchaseItemErrAnyPrice(S, sender, id, value) ==
    LET item == ItemAt(S.items, id)
    IN IF NonReentrantErr(S.status) # "" THEN NonReentrantErr(S.status)
       ELSE IF ItemExistsErr(S.itemIds, S.items, id) # ""
            THEN ItemExistsErr(S.itemIds, S.items, id)
       ELSE IF ~(value >= item.price) THEN "Insufficient payment"
       ELSE IF ~(item.owner # sender) THEN "Cannot purchase your own item"
       ELSE ""

PurchaseItemErr(S, sender, id, value) ==
    LET item == ItemAt(S.items, id)
    IN IF NonReentrantErr(S.status) # "" THEN NonReentrantErr(S.status)
       ELSE IF ItemExistsErr(S.itemIds, S.items, id) # ""
            THEN ItemExistsErr(S.itemIds, S.items, id)
       ELSE IF ~(item.price > 0) THEN "Item is not for sale"
       ELSE IF ~(value >= item.price) THEN "Insufficient payment"
       ELSE IF ~(item.owner # sender) THEN "Cannot purchase your own item"
       ELSE ""

\* bookkeeping that records msg.value as the price paid
PurchaseBookkeepingValue(S, sender, id, value, t) ==
    [S EXCEPT !.balance = Transfer(S.balance, sender, LedgerAddr, value),
              !.status = ENTERED,
              !.items[id].owner = sender,
              !.userItems[sender] = Append(@, id),
              !.ownershipHistory[id] = Append(@, OwnershipRecord(sender, t, value))]

\* bookkeeping that also takes the item out of the seller's index
PurchaseBookkeepingMovesEntry(S, sender, id, value, t) ==
    [S EXCEPT !.balance = Transfer(S.balance, sender, LedgerAddr, value),
              !.status = ENTERED,
              !.items[id].owner = sender,
              !.userItems = [x \in DOMAIN @ |->
                                IF x = sender THEN Append(@[x], id)
                                ELSE IF x = S.items[id].owner
                                     THEN SelectSeq(@[x], LAMBDA e : e # id)
                                     ELSE @[x]],
              !.ownershipHistory[id] =
                  Append(@, OwnershipRecord(sender, t, S.items[id].price))]

\* bookkeeping that writes the new record over the latest one
PurchaseBookkeepingOverwrite(S, sender, id, value, t) ==
    [S EXCEPT !.balance = Transfer(S.balance, sender, LedgerAddr, value),
              !.status = ENTERED,
              !.items[id].owner = sender,
              !.userItems[sender] = Append(@, id),
              !.ownershipHistory[id] =
                  [@ EXCEPT ![Len(@)] = OwnershipRecord(sender, t, S.items[id].price)]]

\* lines 177-190: the state of the ledger when the first transfer is made
PurchaseBookkeeping(S, sender, id, value, t) ==
    [S EXCEPT !.balance = Transfer(S.balance, sender, LedgerAddr, value),
              !.status = ENTERED,
              !.items[id].owner = sender,
              !.userItems[sender] = Append(@, id),
              !.ownershipHistory[id] =
                  Append(@, OwnershipRecord(sender, t, S.items[id].price))]

(* ----------------------------- rentItem -------------------------------- *)
\* a cost that is never less than one unit
RentalCostAtLeastOne(startTime, endTime, rentalPrice) ==
    IF ((endTime - startTime) * rentalPrice) \div OneDay = 0
    THEN 1
    ELSE ((endTime - startTime) * rentalPrice) \div OneDay

\* a cost rounded up to the next unit
RentalCostRoundedUp(startTime, endTime, rentalPrice) ==
    ((endTime - startTime) * rentalPrice + OneDay - 1) \div OneDay

RentalCost(startTime, endTime, rentalPrice) ==
    ((endTime - startTime) * rentalPrice) \div OneDay

RentItemErr(S, sender, id, startTime, endTime, value, t) ==
    LET item == ItemAt(S.items, id)
    IN IF NonReentrantErr(S.status) # "" THEN NonReentrantErr(S.status)
       ELSE IF ItemExistsErr(S.itemIds, S.items, id) # ""
            THEN ItemExistsErr(S.itemIds, S.items, id)
       ELSE IF ValidRentalPeriodErr(t, startTime, endTime) # ""
            THEN ValidRentalPeriodErr(t, startTime, endTime)
       ELSE IF ~(item.rentalPrice > 0) THEN "Item is not available for rent"
       ELSE IF ~(item.owner # sender) THEN "Cannot rent your own item"
       ELSE IF ~(value >= RentalCost(startTime, endTime, item.rentalPrice))
            THEN "Insufficient payment for rental"
       ELSE ""

\* a rental stored with its flag cleared
NewRentalInactive(rid, id, sender, startTime, endTime, cost) ==
    [rentalId |-> rid, itemId |-> id, renter |-> sender, startTime |-> startTime,
     endTime |-> endTime, amountPaid |-> cost, isActive |-> FALSE]

\* Rental({...}) of lines 234-242
NewRental(rid, id, sender, startTime, endTime, cost) ==
    [rentalId |-> rid, itemId |-> id, renter |-> sender, startTime |-> startTime,
     endTime |-> endTime, amountPaid |-> cost, isActive |-> TRUE]

\* bookkeeping that adds the caller to the renter list at every rental
RentBookkeepingAlwaysListed(S, sender, id, startTime, endTime, value) ==
    LET totalCost == RentalCost(startTime, endTime, S.items[id].rentalPrice)
        newRentalId == S.rentalIds + 1
    IN [S EXCEPT !.balance = Transfer(S.balance, sender, LedgerAddr, value),
                 !.status = ENTERED,
                 !.rentalIds = newRentalId,
                 !.rentals = (newRentalId :> NewRental(newRentalId, id, sender, startTime,
                                                       endTime, totalCost)) @@ S.rentals,
                 !.items[id].totalRentals = @ + 1,
                 !.items[id].totalRevenue = @ + totalCost,
                 !.userRentals[sender] = Append(@, newRentalId),
                 !.hasRented = @ \cup {<<id, sender>>},
                 !.itemRenters = (id :> Append(RentersAt(S.itemRenters, id), sender)) @@ @]

\* bookkeeping that counts the rental but not its revenue
RentBookkeepingNoRevenue(S, sender, id, startTime, endTime, value) ==
    LET totalCost == RentalCost(startTime, endTime, S.items[id].rentalPrice)
        newRentalId == S.rentalIds + 1
        first == <<id, sender>> \notin S.hasRented
    IN [S EXCEPT !.balance = Transfer(S.balance, sender, LedgerAddr, value),
                 !.status = ENTERED,
                 !.rentalIds = newRentalId,
                 !.rentals = (newRentalId :> NewRental(newRentalId, id, sender, startTime,
                                                       endTime, totalCost)) @@ S.rentals,
                 !.items[id].totalRentals = @ + 1,
                 !.userRentals[sender] = Append(@, newRentalId),
                 !.hasRented = IF first THEN @ \cup {<<id, sender>>} ELSE @,
                 !.itemRenters = IF first
                                 THEN (id :> Append(RentersAt(S.itemRenters, id), sender)) @@ @
                                 ELSE @]

\* lines 231-255: the state of the ledger when the first transfer is made
RentBookkeeping(S, sender, id, startTime, endTime, value) ==
    LET totalCost == RentalCost(startTime, endTime, S.items[id].rentalPrice)
        newRentalId == S.rentalIds + 1
        first == <<id, sender>> \notin S.hasRented
    IN [S EXCEPT !.balance = Transfer(S.balance, sender, LedgerAddr, value),
                 !.status = ENTERED,
                 !.rentalIds = newRentalId,
                 !.rentals = (newRentalId :> NewRental(newRentalId, id, sender, startTime,
                                                       endTime, totalCost)) @@ S.rentals,
                 !.items[id].totalRentals = @ + 1,
                 !.items[id].totalRevenue = @ + totalCost,
                 !.userRentals[sender] = Append(@, newRentalId),
                 !.hasRented = IF first THEN @ \cup {<<id, sender>>} ELSE @,
                 !.itemRenters = IF first
                                 THEN (id :> Append(RentersAt(S.itemRenters, id), sender)) @@ @
                                 ELSE @]

(* ----------------- the payable calls, step by step --------------------- *)
\* amounts a caller may attach, around the amount due
PaymentChoices(due) == {v \in {due - 1, due, due + 1} : v >= 0}

\* rental periods <<startTime, endTime>> the contract accepts at time t
ValidPeriods(t) ==
    {<<t, t + 1>>, <<t, t + HalfDay + 1>>, <<t + HalfDay, t + 2 * HalfDay>>,
     <<t, t + OneYear>>}

\* one period for each way of breaking validRentalPeriod
InvalidPeriods(t) ==
    {<<t, t>>, <<t, t + OneYear + 1>>} \cup (IF t > 0 THEN {<<t - 1, t + 1>>} ELSE {})

\* purchaseItem arguments <<itemId, msg.value>>: every allocated item with a payment
\* around its price, and the identifiers 0 and total + 1
PurchaseInputs ==
    {<<i, v>> : i \in {0, itemIds + 1}, v \in {0}}
    \cup UNION {{<<i, v>> : v \in PaymentChoices(ItemAt(items, i).price)} : i \in 1 .. itemIds}

\* rentItem arguments <<itemId, startTime, endTime, msg.value>>
RentInputs ==
    {<<i, now, now + 1, 0>> : i \in {0, itemIds + 1}}
    \cup UNION {{<<i, p[1], p[2], v>> :
                    v \in PaymentChoices(RentalCost(p[1], p[2], ItemAt(items, i).rentalPrice))} :
                 i \in 1 .. itemIds, p \in ValidPeriods(now)}
    \cup {<<i, p[1], p[2], RentalCost(p[1], p[2], ItemAt(items, i).rentalPrice)>> :
             i \in 1 .. itemIds, p \in InvalidPeriods(now)}

\* what a payee's receive hook tries: calls that meet every other requirement
ReenterPurchaseInputs == {<<i, ItemAt(items, i).price>> : i \in 1 .. itemIds}

ReenterRentInputs ==
    {<<i, now, now + 1, RentalCost(now, now + 1, ItemAt(items, i).rentalPrice)>> :
        i \in 1 .. itemIds}

\* purchaseItem up to its first external call (lines 166-190)
PurchaseItem(sender, id, value) ==
    /\ Ready
    /\ value <= balance[sender]
    /\ LET err == PurchaseItemErr(Snapshot, sender, id, value)
       IN IF err # ""
          THEN /\ last' = Failed("purchaseItem", err)
               /\ pre' = Snapshot
               /\ UNCHANGED <<ledgerVars, now, tx, ops, createdIds, purchaseCount, app>>
          ELSE /\ ops < MaxOps
               /\ Install(PurchaseBookkeeping(Snapshot, sender, id, value, now))
               /\ pre' = Snapshot
               /\ tx' = [Idle EXCEPT !.pc = "payOwner", !.op = "purchaseItem",
                                     !.caller = sender, !.itemId = id, !.value = value,
                                     !.due = items[id].price, !.payee = items[id].owner]
               /\ last' = NoCall
               /\ UNCHANGED <<now, ops, createdIds, purchaseCount, app>>

\* rentItem up to its first external call (lines 211-255)
RentItem(sender, id, startTime, endTime, value) ==
    /\ Ready
    /\ value <= balance[sender]
    /\ LET err == RentItemErr(Snapshot, sender, id, startTime, endTime, value, now)
       IN IF err # ""
          THEN /\ last' = Failed("rentItem", err)
               /\ pre' = Snapshot
               /\ UNCHANGED <<ledgerVars, now, tx, ops, createdIds, purchaseCount, app>>
          ELSE /\ ops < MaxOps
               /\ Install(RentBookkeeping(Snapshot, sender, id, startTime, endTime, value))
               /\ pre' = Snapshot
               /\ tx' = [Idle EXCEPT !.pc = "payOwner", !.op = "rentItem",
                                     !.caller = sender, !.itemId = id, !.value = value,
                                     !.due = RentalCost(startTime, endTime,
                                                        items[id].rentalPrice),
                                     !.payee = items[id].owner, !.ret = rentalIds + 1]
               /\ last' = NoCall
               /\ UNCHANGED <<now, ops, createdIds, purchaseCount, app>>

\* the call returns: the guard is released and the outcome is reported
Complete ==
    /\ status' = NOT_ENTERED
    /\ tx' = Idle
    /\ last' = Succeeded(tx.op, tx.caller, tx.itemId, tx.ret, tx.value - tx.due)
    /\ ops' = ops + 1
    /\ purchaseCount' = IF tx.op = "purchaseItem"
                        THEN [purchaseCount EXCEPT ![tx.itemId] = @ + 1]
                        ELSE purchaseCount
    /\ UNCHANGED <<createdIds, app>>

\* a transfer fails: the whole call reverts, msg.value included
Revert ==
    /\ Install(pre)
    /\ tx' = Idle
    /\ last' = Failed(tx.op, "Transfer failed")
    /\ UNCHANGED <<now, ops, createdIds, purchaseCount, pre, app>>

\* a failed payout that ended the call but kept what the call had written
AbortWithoutRevert ==
    /\ status' = NOT_ENTERED
    /\ tx' = Idle
    /\ last' = Failed(tx.op, "Transfer failed")
    /\ UNCHANGED <<itemIds, rentalIds, items, rentals, ownershipHistory, userItems,
                   userRentals, hasRented, itemRenters, balance, now, ops, createdIds, purchaseCount, pre, app>>

\* what a failed payout does to the call: transfer() propagates the failure
OnTransferFailure == Revert

\* payable(previousOwner).transfer(item.price) / payable(item.owner).transfer(totalCost)
TransferToOwner(accepts) ==
    /\ tx.pc = "payOwner"
    /\ IF ~accepts
       THEN OnTransferFailure
       ELSE /\ balance' = IF tx.payee # ZeroAddress
                          THEN Transfer(balance, LedgerAddr, tx.payee, tx.due)
                          ELSE balance
            /\ UNCHANGED <<itemIds, rentalIds, items, rentals, ownershipHistory,
                           userItems, userRentals, hasRented, itemRenters, now>>
            /\ IF tx.value > tx.due
               THEN /\ tx' = [tx EXCEPT !.pc = "refund"]
                    /\ UNCHANGED <<status, pre, last, ops, createdIds, purchaseCount, app>>
               ELSE Complete /\ UNCHANGED pre

\* a refund that is never paid
RefundNothing(value, due) == 0

\* a refund of the whole payment
RefundAll(value, due) == value

\* msg.value - item.price / msg.value - totalCost
RefundAmount(value, due) == value - due

\* payable(msg.sender).transfer(msg.value - due)
RefundExcess(accepts) ==
    /\ tx.pc = "refund"
    /\ IF ~accepts
       THEN OnTransferFailure
       ELSE /\ balance' = Transfer(balance, LedgerAddr, tx.caller, RefundAmount(tx.value, tx.due))
            /\ UNCHANGED <<itemIds, rentalIds, items, rentals, ownershipHistory,
                           userItems, userRentals, hasRented, itemRenters, now, pre>>
            /\ Complete

\* the account being paid right now
CurrentPayee == IF tx.pc = "payOwner" THEN tx.payee ELSE tx.caller

\* a nested purchaseItem run to its end (its own payees accept)
InnerPurchase(S, sender, id, value, t) ==
    LET B == PurchaseBookkeeping(S, sender, id, value, t)
        price == S.items[id].price
        paid == Transfer(B.balance, LedgerAddr, S.items[id].owner, price)
    IN [B EXCEPT !.balance = Transfer(paid, LedgerAddr, sender, value - price)]

\* a nested rentItem run to its end (its own payees accept)
InnerRent(S, sender, id, startTime, endTime, value) ==
    LET B == RentBookkeeping(S, sender, id, startTime, endTime, value)
        cost == RentalCost(startTime, endTime, S.items[id].rentalPrice)
        paid == Transfer(B.balance, LedgerAddr, S.items[id].owner, cost)
    IN [B EXCEPT !.balance = Transfer(paid, LedgerAddr, sender, value - cost)]

\* the payee's receive hook calls purchaseItem while the payout is in progress
ReenterPurchase(id, value) ==
    /\ tx.pc \in {"payOwner", "refund"}
    /\ ~tx.reentered
    /\ CurrentPayee \in Accounts
    /\ value <= balance[CurrentPayee]
    /\ IF PurchaseItemErr(Snapshot, CurrentPayee, id, value) # ""
       THEN /\ tx' = [tx EXCEPT !.reentered = TRUE]
            /\ UNCHANGED <<ledgerVars, now, pre, last, ops, createdIds, purchaseCount, app>>
       ELSE /\ Install(InnerPurchase(Snapshot, CurrentPayee, id, value, now))
            /\ tx' = [tx EXCEPT !.reentered = TRUE, !.innerOk = TRUE]
            /\ UNCHANGED <<now, pre, last, ops, createdIds, purchaseCount, app>>

\* the payee's receive hook calls rentItem while the payout is in progress
ReenterRent(id, startTime, endTime, value) ==
    /\ tx.pc \in {"payOwner", "refund"}
    /\ ~tx.reentered
    /\ CurrentPayee \in Accounts
    /\ value <= balance[CurrentPayee]
    /\ IF RentItemErr(Snapshot, CurrentPayee, id, startTime, endTime, value, now) # ""
       THEN /\ tx' = [tx EXCEPT !.reentered = TRUE]
            /\ UNCHANGED <<ledgerVars, now, pre, last, ops, createdIds, purchaseCount, app>>
       ELSE /\ Install(InnerRent(Snapshot, CurrentPayee, id, startTime, endTime, value))
            /\ tx' = [tx EXCEPT !.reentered = TRUE, !.innerOk = TRUE]
            /\ UNCHANGED <<now, pre, last, ops, createdIds, purchaseCount, app>>

(* ------------------------- emergencyWithdraw --------------------------- *)
\* the account that deployed the ledger: Ownable's owner
Deployer == "a1"

\* onlyOwner, then the require of line 421: "" when both pass
EmergencyWithdrawErr(bal, sender) ==
    IF sender # Deployer THEN "OwnableUnauthorizedAccount"
    ELSE IF ~(bal[LedgerAddr] > 0) THEN "No balance to withdraw"
    ELSE ""

\* emergencyWithdraw(): the whole balance of the ledger goes to the owner
EmergencyWithdraw(sender, accepts) ==
    /\ Ready
    /\ pre' = Snapshot
    /\ LET err == EmergencyWithdrawErr(balance, sender)
       IN IF err # ""
          THEN /\ last' = Failed("emergencyWithdraw", err)
               /\ UNCHANGED <<balance, ops>>
          ELSE IF ~accepts
          THEN /\ last' = Failed("emergencyWithdraw", "Transfer failed")
               /\ UNCHANGED <<balance, ops>>
          ELSE /\ ops < MaxOps
               /\ ops' = ops + 1
               /\ balance' = Transfer(balance, LedgerAddr, Deployer, balance[LedgerAddr])
               /\ last' = Succeeded("emergencyWithdraw", sender, 0, balance[LedgerAddr], 0)
    /\ UNCHANGED <<itemIds, rentalIds, items, rentals, ownershipHistory, userItems,
                   userRentals, hasRented, itemRenters, status, now, tx, createdIds,
                   purchaseCount, app>>

(* ------------------------------ views ---------------------------------- *)
GetTotalItems == itemIds

GetTotalRentals == rentalIds

\* getOwnershipHistory: the stored array (the call fails when _itemId > total)
GetOwnershipHistory(id) == HistoryAt(ownershipHistory, id)

DefaultRental ==
    [rentalId |-> 0, itemId |-> 0, renter |-> ZeroAddress, startTime |-> 0, endTime |-> 0,
     amountPaid |-> 0, isActive |-> FALSE]

\* rentals[_rentalId] of a mapping: the stored struct, or the zero struct
RentalAt(rs, id) == IF id \in DOMAIN rs THEN rs[id] ELSE DefaultRental

\* the require of getRental: "" when it passes
GetRentalErr(rids, id) == IF ~(id <= rids) THEN "Rental does not exist" ELSE ""

\* getRental once its require has passed
GetRental(id) == RentalAt(rentals, id)

\* the require of getItem: "" when it passes
GetItemErr(ids, id) == IF ~(id <= ids) THEN "Item does not exist" ELSE ""

\* getItem once its require has passed
GetItem(id) == ItemAt(items, id)

\* the require of getOwnershipHistory
GetOwnershipHistoryErr(ids, id) == IF ~(id <= ids) THEN "Item does not exist" ELSE ""

\* the require of getItemRenters
GetItemRentersErr(ids, id) == IF ~(id <= ids) THEN "Item does not exist" ELSE ""

\* getItemRenters: the stored array (the call fails when _itemId > total)
GetItemRenters(id) == RentersAt(itemRenters, id)

\* getUserRentals(_user)
GetUserRentals(user) == userRentals[user]

\* getUserItems(_user)
GetUserItems(user) == userItems[user]

\* a scan that treats endTime as exclusive
HasActiveRentalExclusiveEnd(id, user, t) ==
    \E k \in 1 .. Len(userRentals[user]) :
        LET rental == rentals[userRentals[user][k]]
        IN /\ rental.itemId = id
           /\ rental.isActive
           /\ t >= rental.startTime
           /\ t < rental.endTime

\* hasActiveRental at block.timestamp = t
HasActiveRental(id, user, t) ==
    \E k \in 1 .. Len(userRentals[user]) :
        LET rental == rentals[userRentals[user][k]]
        IN /\ rental.itemId = id
           /\ rental.isActive
           /\ t >= rental.startTime
           /\ t <= rental.endTime

\* the require of getActiveItems: "" when it passes
GetActiveItemsErr(ids, offset) ==
    IF ~(offset < ids) THEN "Offset out of bounds" ELSE ""

\* a page whose loop starts at _offset instead of _offset + 1
GetActiveItemsFromOffset(ids, its, offset, limit) ==
    LET end == IF offset + limit > ids THEN ids ELSE offset + limit
        window == [k \in 1 .. (end - offset) |-> ItemAt(its, offset + k - 1)]
    IN SelectSeq(window, LAMBDA it : it.isActive)

\* getActiveItems once its require has passed: the slots _offset + 1 .. end in
\* order, the active ones copied to the front and the array cut to their number
GetActiveItems(ids, its, offset, limit) ==
    LET end == IF offset + limit > ids THEN ids ELSE offset + limit
        window == [k \in 1 .. (end - offset) |-> ItemAt(its, offset + k)]
    IN SelectSeq(window, LAMBDA it : it.isActive)

(* ------------------------------ time ----------------------------------- *)
\* a later block: block.timestamp advances
Tick ==
    /\ Ready
    /\ now < MaxTicks * HalfDay
    /\ now' = now + HalfDay
    /\ UNCHANGED <<ledgerVars, tx, pre, last, ops, createdIds, purchaseCount, app>>

\* the caller has read the outcome; the next call can be made
Acknowledge ==
    /\ tx.pc = "idle"
    /\ last # NoCall
    /\ last' = NoCall
    /\ pre' = NoSnapshot
    /\ UNCHANGED <<ledgerVars, now, tx, ops, createdIds, purchaseCount, app>>

(* ---------------------- the catalogue and its pages -------------------- *)
\* page sizes a reader may ask for
Limits == {0, 1, 2, 5, 10}

\* the outcome of a read call, with the arguments it was made with
Read(op, args, err, ret) ==
    [op |-> op, ok |-> err = "", err |-> err, caller |-> ZeroAddress, itemId |-> 0,
     ret |-> ret, refund |-> 0, args |-> args]

\* createItem("Paper A", "cid", 100, 60) while the catalogue has room
ListItem(sender) ==
    /\ Ready
    /\ itemIds < MaxItems
    /\ CreateItemErr("Paper A", "cid", 100, 60) = ""
    /\ LET newItemId == NextItemId(itemIds)
       IN /\ itemIds' = newItemId
          /\ items' = (newItemId :> NewItem(newItemId, "Paper A", "cid", sender, 100, 60,
                                           now)) @@ items
          /\ userItems' = [userItems EXCEPT ![sender] = Append(@, newItemId)]
          /\ ownershipHistory' =
                 (newItemId :> Append(HistoryAt(ownershipHistory, newItemId),
                                      OwnershipRecord(sender, now, 0)))
                 @@ ownershipHistory
          /\ createdIds' = Append(createdIds, newItemId)
          /\ purchaseCount' = (newItemId :> 0) @@ purchaseCount
          /\ last' = Succeeded("createItem", sender, newItemId, newItemId, 0)
    /\ pre' = Snapshot
    /\ UNCHANGED <<rentalIds, rentals, userRentals, hasRented, itemRenters, balance,
                   status, now, tx, ops, app>>

\* deactivateItem(id)
DelistItem(sender, id) ==
    /\ Ready
    /\ LET err == DeactivateItemErr(itemIds, items, id, sender)
       IN IF err # ""
          THEN /\ last' = Failed("deactivateItem", err)
               /\ UNCHANGED items
          ELSE /\ items' = [items EXCEPT ![id].isActive = FALSE]
               /\ last' = Succeeded("deactivateItem", sender, id, 0, 0)
    /\ pre' = Snapshot
    /\ UNCHANGED <<itemIds, rentalIds, rentals, ownershipHistory, userItems, userRentals,
                   hasRented, itemRenters, balance, status, now, tx, ops, createdIds,
                   purchaseCount, app>>

\* a reader calls getActiveItems(offset, limit)
BrowseItems(offset, limit) ==
    /\ Ready
    /\ LET err == GetActiveItemsErr(itemIds, offset)
       IN last' = Read("getActiveItems", <<offset, limit>>, err,
                       IF err = "" THEN GetActiveItems(itemIds, items, offset, limit)
                       ELSE <<>>)
    /\ pre' = Snapshot
    /\ UNCHANGED <<ledgerVars, now, tx, ops, createdIds, purchaseCount, app>>

(* --------------------------- the ledger client ------------------------- *)
\* ContractService: the methods that send a transaction, and those that only read
WriteMethods == {"createItem", "purchaseItem", "rentItem", "updateItemPrices",
                 "deactivateItem"}

ReadMethods == {"getItem", "getRental", "getActiveItems", "getUserItems", "getUserRentals",
                "getItemRenters", "getOwnershipHistory", "hasActiveRental",
                "getTotalItems", "getTotalRentals"}

\* the read methods whose ledger call sits inside a try/catch
CatchingReads == {"getActiveItems", "getUserItems", "getUserRentals", "hasActiveRental",
                  "getTotalItems", "getTotalRentals"}

\* what the catch block of a read method returns
ReadDefault(m) ==
    CASE m \in {"getActiveItems", "getUserItems", "getUserRentals"} -> <<>>
      [] m = "hasActiveRental" -> FALSE
      [] OTHER -> 0

\* how a client method ends, given whether its ledger call failed
ClientOutcome(m, failed) ==
    IF ~failed THEN "returned"
    ELSE IF m \in CatchingReads THEN "default"
    ELSE "thrown"

\* page sizes the client asks for: one item, and its default of 20
ClientLimits == {1, 20}

\* arguments of the read methods
ReadArgs(m) ==
    CASE m \in {"getItem", "getItemRenters", "getOwnershipHistory"} ->
             {<<i>> : i \in ItemIdInputs}
      [] m = "getRental" -> {<<r>> : r \in 0 .. (rentalIds + 1)}
      [] m = "getActiveItems" -> {<<o, l>> : o \in ItemIdInputs, l \in ClientLimits}
      [] m \in {"getUserItems", "getUserRentals"} -> {<<u>> : u \in Accounts}
      [] m = "hasActiveRental" -> {<<i, u>> : i \in ItemIdInputs, u \in Accounts}
      [] OTHER -> {<<>>}

\* the revert reason of the ledger's view function, "" when it returns
LedgerReadErr(m, a) ==
    CASE m = "getItem" -> GetItemErr(itemIds, a[1])
      [] m = "getRental" -> GetRentalErr(rentalIds, a[1])
      [] m = "getItemRenters" -> GetItemRentersErr(itemIds, a[1])
      [] m = "getOwnershipHistory" -> GetOwnershipHistoryErr(itemIds, a[1])
      [] m = "getActiveItems" -> GetActiveItemsErr(itemIds, a[1])
      [] OTHER -> ""

\* what the ledger's view function returns
LedgerReadValue(m, a) ==
    CASE m = "getItem" -> GetItem(a[1])
      [] m = "getRental" -> GetRental(a[1])
      [] m = "getItemRenters" -> GetItemRenters(a[1])
      [] m = "getOwnershipHistory" -> GetOwnershipHistory(a[1])
      [] m = "getActiveItems" -> GetActiveItems(itemIds, items, a[1], a[2])
      [] m = "getUserItems" -> GetUserItems(a[1])
      [] m = "getUserRentals" -> GetUserRentals(a[1])
      [] m = "hasActiveRental" -> HasActiveRental(a[1], a[2], now)
      [] m = "getTotalItems" -> GetTotalItems
      [] OTHER -> GetTotalRentals

\* a client method has ended
Done(m, failed, result) ==
    [pc |-> "done", method |-> m, failed |-> failed, outcome |-> ClientOutcome(m, failed),
     result |-> result]

\* a read method: reachable says whether the request got to the ledger and back
ClientRead(m, a, reachable) ==
    /\ Ready
    /\ app.pc = "none"
    /\ LET failed == ~reachable \/ LedgerReadErr(m, a) # ""
       IN app' = Done(m, failed,
                      IF ~failed THEN LedgerReadValue(m, a)
                      ELSE IF m \in CatchingReads THEN ReadDefault(m)
                      ELSE "error")
    /\ UNCHANGED <<ledgerVars, now, tx, pre, last, ops, createdIds, purchaseCount>>

\* the account of the signer the client is connected with
ClientAccount == "a2"

\* arguments of the write methods, msg.value last for the payable ones: a purchase at
\* the price or above it, a rental of one day paid in full or not at all
WriteArgs(m) ==
    CASE m = "createItem" -> CreateArgs
      [] m = "purchaseItem" ->
             {<<i, ItemAt(items, i).price + x>> : i \in ItemIdInputs, x \in {0, 1}}
      [] m = "rentItem" ->
             UNION {{<<i, now, now + OneDay, v>> : v \in {0, ItemAt(items, i).rentalPrice}} :
                       i \in ItemIdInputs}
      [] m = "updateItemPrices" ->
             {<<i, p, r>> : i \in ItemIdInputs, p \in Prices, r \in RentalPrices}
      [] OTHER -> {<<i>> : i \in ItemIdInputs}

\* a write method up to the sending of its transaction; without a signer it throws
ClientWrite(m, sender, a, signer) ==
    /\ Ready
    /\ app.pc = "none"
    /\ app' = IF ~signer THEN Done(m, TRUE, "Signer not available")
              ELSE [pc |-> "sent", method |-> m, caller |-> sender, args |-> a]
    /\ UNCHANGED <<ledgerVars, now, tx, pre, last, ops, createdIds, purchaseCount>>

\* the client's transaction is the next one a block includes
Sent(m) == app.pc = "sent" /\ app.method = m

\* the transaction never reaches the ledger: the awaited send rejects
ClientSendFails ==
    /\ Ready
    /\ app.pc = "sent"
    /\ app' = Done(app.method, TRUE, "error")
    /\ UNCHANGED <<ledgerVars, now, tx, pre, last, ops, createdIds, purchaseCount>>

\* the identifier createItem returns: the one in the ItemCreated log when it was parsed,
\* else the item count when that read succeeded, else the guess 1
CreatedItemIdWithoutCount(parsed, eventId, countRead, totalItems) ==
    IF parsed THEN eventId ELSE 1

CreatedItemId(parsed, eventId, countRead, totalItems) ==
    IF parsed THEN eventId
    ELSE IF countRead THEN totalItems
    ELSE 1

\* createItem has returned an identifier
Created(sender, nth, parsed, countRead, result) ==
    [pc |-> "done", method |-> "createItem", failed |-> FALSE,
     outcome |-> ClientOutcome("createItem", FALSE), result |-> result, caller |-> sender,
     nth |-> nth, parsed |-> parsed, countRead |-> countRead]

\* tx.wait() settles: a reverted call throws; createItem then looks for its log
ClientWait(parsed) ==
    /\ app.pc = "sent"
    /\ tx.pc = "idle"
    /\ last.op = app.method
    /\ app' = IF ~last.ok THEN Done(app.method, TRUE, last.err)
              ELSE IF app.method # "createItem" THEN Done(app.method, FALSE, 0)
              ELSE IF parsed
                   THEN Created(app.caller, Len(createdIds), TRUE, FALSE,
                                CreatedItemId(TRUE, last.ret, FALSE, 0))
                   ELSE [pc |-> "confirmed", method |-> "createItem",
                         caller |-> app.caller, nth |-> Len(createdIds)]
    /\ last' = NoCall
    /\ pre' = NoSnapshot
    /\ UNCHANGED <<ledgerVars, now, tx, ops, createdIds, purchaseCount>>

\* createItem found no log: it reads getTotalItems(), and guesses when that fails too
ClientCountFallback(countRead) ==
    /\ Ready
    /\ app.pc = "confirmed"
    /\ app' = Created(app.caller, app.nth, FALSE, countRead,
                      CreatedItemId(FALSE, 0, countRead, GetTotalItems))
    /\ UNCHANGED <<ledgerVars, now, tx, pre, last, ops, createdIds, purchaseCount>>

\* the caller of the client has the outcome; the client is free again
ClientReturn ==
    /\ app.pc = "done"
    /\ app' = NoApp
    /\ UNCHANGED <<ledgerVars, now, tx, pre, last, ops, createdIds, purchaseCount>>

(* ------------------------ the blob store client ------------------------ *)
\* number of distinct files, and of distinct values of Math.random(), that are tried
MaxFiles == 3
MaxRandom == 2

Files == 1 .. MaxFiles

\* an identifier is the sequence of its parts; the first is what startsWith looks at
MockPrefix == "mock-cid-"

\* `mock-cid-${Date.now()}-${Math.random()...}`
MockCid(t, r) == <<MockPrefix, t, r>>

\* upload.IpfsHash: the hash of the file's content
IpfsHash(file) == <<"Qm", file>>

\* cid.startsWith('mock-cid-')
IsMockCid(cid) == Len(cid) > 0 /\ cid[1] = MockPrefix

\* identifiers a caller may ask for: every hash, every placeholder, and the empty string
CidInputs ==
    {IpfsHash(f) : f \in Files} \cup {MockCid(0, r) : r \in 1 .. MaxRandom} \cup {<<>>}

\* no request has been made yet
NoRequest ==
    [op |-> "none", arg |-> <<>>, threw |-> FALSE, contacted |-> FALSE, status |-> 0,
     ret |-> <<>>]

\* the module is loaded: pinata is the SDK when PINATA_JWT is set, null otherwise
LoadBlobClient(jwt) ==
    /\ app.pc = "none"
    /\ app' = [pc |-> "blob", configured |-> jwt, stored |-> {}, issued |-> {},
               call |-> NoRequest]
    /\ UNCHANGED <<ledgerVars, now, tx, pre, last, ops, createdIds, purchaseCount>>

\* uploadToIPFS: the hash when the store is configured and takes the file, a
\* placeholder from the fallback at 20-25 or from the catch block otherwise
UploadResult(configured, uploaded, file, t, r) ==
    IF configured /\ uploaded THEN IpfsHash(file) ELSE MockCid(t, r)

UploadToIPFS(file, uploaded, r) ==
    /\ app.pc = "blob"
    /\ LET cid == UploadResult(app.configured, uploaded, file, now, r)
       IN app' = [app EXCEPT
                    !.stored = IF IsMockCid(cid) THEN @ ELSE @ \cup {cid},
                    !.issued = IF IsMockCid(cid) THEN @ \cup {cid} ELSE @,
                    !.call = [op |-> "uploadToIPFS", arg |-> <<file>>, threw |-> FALSE,
                              contacted |-> app.configured, status |-> 0, ret |-> cid,
                              uploaded |-> uploaded]]
    /\ UNCHANGED <<ledgerVars, now, tx, pre, last, ops, createdIds, purchaseCount>>

\* downloadFromIPFS without its check for placeholders
DownloadWithoutMockCheck(configured, stored, cid, gatewayOk) ==
    IF ~configured THEN [threw |-> TRUE, contacted |-> FALSE, ret |-> <<>>]
    ELSE IF ~(gatewayOk /\ cid \in stored)
         THEN [threw |-> TRUE, contacted |-> TRUE, ret |-> <<>>]
    ELSE [threw |-> FALSE, contacted |-> TRUE, ret |-> <<"bytes", cid[2]>>]

\* downloadFromIPFS: what it throws or returns, and whether it fetched from the gateway;
\* response.ok needs the gateway to answer and the content to be there
DownloadFromIPFS(configured, stored, cid, gatewayOk) ==
    IF IsMockCid(cid) THEN [threw |-> TRUE, contacted |-> FALSE, ret |-> <<>>]
    ELSE IF ~configured THEN [threw |-> TRUE, contacted |-> FALSE, ret |-> <<>>]
    ELSE IF ~(gatewayOk /\ cid \in stored)
         THEN [threw |-> TRUE, contacted |-> TRUE, ret |-> <<>>]
    ELSE [threw |-> FALSE, contacted |-> TRUE, ret |-> <<"bytes", cid[2]>>]

\* a direct call of downloadFromIPFS(cid)
Download(cid, gatewayOk) ==
    /\ app.pc = "blob"
    /\ LET d == DownloadFromIPFS(app.configured, app.stored, cid, gatewayOk)
       IN app' = [app EXCEPT
                    !.call = [op |-> "downloadFromIPFS", arg |-> cid, threw |-> d.threw,
                              contacted |-> d.contacted, status |-> 0, ret |-> d.ret]]
    /\ UNCHANGED <<ledgerVars, now, tx, pre, last, ops, createdIds, purchaseCount>>

\* GET /api/download/[blobId]
DownloadRoute(blobId, gatewayOk) ==
    /\ app.pc = "blob"
    /\ LET d == DownloadFromIPFS(app.configured, app.stored, blobId, gatewayOk)
           answer ==
               IF blobId = <<>>
               THEN [status |-> 400, contacted |-> FALSE, ret |-> <<"error">>]
               ELSE IF blobId[1] = MockPrefix
               THEN [status |-> 404, contacted |-> FALSE, ret |-> <<"error">>]
               ELSE IF d.threw
               THEN [status |-> 500, contacted |-> d.contacted, ret |-> <<"error">>]
               ELSE [status |-> 200, contacted |-> d.contacted, ret |-> d.ret]
       IN app' = [app EXCEPT
                    !.call = [op |-> "GET", arg |-> blobId, threw |-> FALSE,
                              contacted |-> answer.contacted, status |-> answer.status,
                              ret |-> answer.ret]]
    /\ UNCHANGED <<ledgerVars, now, tx, pre, last, ops, createdIds, purchaseCount>>

(* -------------------------- the marketplace page ----------------------- *)
\* the clock, in seconds, advances in steps of ClockStep up to MaxSeconds
MaxSeconds == 70
ClockStep == 5

\* startTime = Math.floor(Date.now() / 1000) + 60
RentLeadTime == 60

\* setTimeout(() => { loadItems(); ... }, 5000)
RefreshDelay == 5

\* the two rental buttons: 1 Day and 7 Days
RentDays == {1, 7}

\* service.getActiveItems(0, 50), an empty list when the call fails
PageActiveItems ==
    IF GetActiveItemsErr(itemIds, 0) # "" THEN ReadDefault("getActiveItems")
    ELSE GetActiveItems(itemIds, items, 0, 50)

\* loadItems: every active item with the user's ownership and rental status at time t
LoadItems(user, t) ==
    [k \in DOMAIN PageActiveItems |->
        LET item == PageActiveItems[k]
            isOwner == item.owner = user
        IN [itemId |-> item.itemId,
            rentalPrice |-> item.rentalPrice,
            isOwner |-> isOwner,
            hasActiveRental |-> IF ~isOwner THEN HasActiveRental(item.itemId, user, t)
                                ELSE FALSE]]

\* the download control of an item is the enabled button, not the grey notice
DownloadEnabled(shown, id) ==
    \E k \in DOMAIN shown :
        shown[k].itemId = id /\ (shown[k].isOwner \/ shown[k].hasActiveRental)

\* the rental buttons of an item are shown
RentOffered(shown, id) ==
    \E k \in DOMAIN shown :
        /\ shown[k].itemId = id
        /\ ~shown[k].isOwner /\ shown[k].rentalPrice # 0 /\ ~shown[k].hasActiveRental

\* the page is opened, the wallet connected, and the items loaded
OpenMarketplace(user) ==
    /\ Ready
    /\ app.pc = "none"
    /\ app' = [pc |-> "browsing", user |-> user, shown |-> LoadItems(user, now),
               itemId |-> 0, days |-> 0, startTime |-> 0, endTime |-> 0, value |-> 0,
               confirmedAt |-> 0]
    /\ UNCHANGED <<ledgerVars, now, tx, pre, last, ops, createdIds, purchaseCount>>

\* rentItem of the page up to the sending of the transaction
PageRentItem(id, days) ==
    /\ Ready
    /\ app.pc = "browsing"
    /\ RentOffered(app.shown, id)
    /\ LET startTime == now + RentLeadTime
           rentalPrice == (CHOOSE k \in DOMAIN app.shown : app.shown[k].itemId = id)
       IN app' = [app EXCEPT !.pc = "renting", !.itemId = id, !.days = days,
                             !.startTime = startTime,
                             !.endTime = startTime + days * 24 * 60 * 60,
                             !.value = app.shown[rentalPrice].rentalPrice * days]
    /\ UNCHANGED <<ledgerVars, now, tx, pre, last, ops, createdIds, purchaseCount>>

\* the awaited rentItem of the client settles: the success toast and the refresh timer,
\* or the error toast
PageRentSettled ==
    /\ app.pc = "renting"
    /\ tx.pc = "idle"
    /\ last.op = "rentItem"
    /\ app' = IF last.ok THEN [app EXCEPT !.pc = "confirmed", !.confirmedAt = now]
              ELSE [app EXCEPT !.pc = "browsing"]
    /\ last' = NoCall
    /\ pre' = NoSnapshot
    /\ UNCHANGED <<ledgerVars, now, tx, ops, createdIds, purchaseCount>>

\* the timer set on confirmation fires, no earlier than RefreshDelay later: loadItems
PageRefresh ==
    /\ Ready
    /\ app.pc = "confirmed"
    /\ now >= app.confirmedAt + RefreshDelay
    /\ app' = [app EXCEPT !.pc = "refreshed", !.shown = LoadItems(app.user, now)]
    /\ UNCHANGED <<ledgerVars, now, tx, pre, last, ops, createdIds, purchaseCount>>

\* the Refresh Status button, or a reload of the page: loadItems
PageReload ==
    /\ Ready
    /\ app.pc \in {"browsing", "refreshed"}
    /\ app' = [app EXCEPT !.pc = "browsing", !.shown = LoadItems(app.user, now)]
    /\ UNCHANGED <<ledgerVars, now, tx, pre, last, ops, createdIds, purchaseCount>>

\* the clock of the page and of the chain moves on while the page is open
Seconds ==
    /\ tx.pc = "idle"
    /\ app.pc \in {"renting", "confirmed", "refreshed"}
    /\ now + ClockStep <= MaxSeconds
    /\ now' = now + ClockStep
    /\ UNCHANGED <<ledgerVars, tx, pre, last, ops, createdIds, purchaseCount, app>>

(* ====================== properties of the ledger ======================= *)
\* a call of op has just returned
Returned(op) == tx.pc = "idle" /\ last.op = op

\* a call of op has just returned successfully
Ok(op) == Returned(op) /\ last.ok

\* C1: the identifiers returned by the successful createItem calls are 1, 2, 3, ...
\* in commit order, getTotalItems() is the number of successful createItem calls,
\* a successful call returns the previous total plus one, and no other call, failed
\* createItem included, moves the counter.
C1_SequentialItemIds ==
    /\ createdIds = [k \in 1 .. Len(createdIds) |-> k]
    /\ GetTotalItems = Len(createdIds)
    /\ DOMAIN items = 1 .. GetTotalItems
    /\ \A k \in DOMAIN items : items[k].itemId = k
    /\ Ok("createItem") => last.ret = pre.itemIds + 1 /\ GetTotalItems = last.ret
    /\ (tx.pc = "idle" /\ last.op # "none" /\ ~Ok("createItem")) => GetTotalItems = pre.itemIds
    /\ tx.pc # "idle" => GetTotalItems = pre.itemIds

\* two items exist, another call came in between, and a createItem has just failed
C1_Witness ==
    /\ createdIds = <<1, 2>>
    /\ Returned("createItem")
    /\ ~last.ok
    /\ ops = 3

\* C2 (as the specification states it): of two purchases of one item submitted
\* against the same owner by two different other accounts, only the first to commit
\* succeeds. Both are in the same block, so the history never shows two purchases
\* with one timestamp by two different accounts that both differ from the seller of
\* the first.
C2_OnlyFirstPurchaseSucceeds ==
    \A i \in DOMAIN ownershipHistory :
        LET h == ownershipHistory[i]
        IN \A k \in 1 .. Len(h) :
              (k + 2 <= Len(h) /\ tx.pc = "idle") =>
                  ~(/\ h[k + 1].timestamp = h[k + 2].timestamp
                    /\ h[k + 1].owner # h[k].owner
                    /\ h[k + 2].owner # h[k].owner
                    /\ h[k + 1].owner # h[k + 2].owner)

\* the bookkeeping of the payable call in progress, as lines 177-190 and 231-255
\* leave it
BooksOfPurchase ==
    LET i == tx.itemId
    IN /\ items = [pre.items EXCEPT ![i].owner = tx.caller]
       /\ userItems = [pre.userItems EXCEPT ![tx.caller] = Append(@, i)]
       /\ ownershipHistory =
              [pre.ownershipHistory EXCEPT ![i] =
                  Append(@, [owner |-> tx.caller, timestamp |-> now,
                             price |-> pre.items[i].price])]
       /\ Len(ownershipHistory[i]) = Len(pre.ownershipHistory[i]) + 1
       /\ rentalIds = pre.rentalIds
       /\ rentals = pre.rentals
       /\ userRentals = pre.userRentals
       /\ hasRented = pre.hasRented
       /\ itemRenters = pre.itemRenters

BooksOfRent ==
    LET i == tx.itemId
        r == pre.rentalIds + 1
    IN /\ rentalIds = r
       /\ DOMAIN rentals = DOMAIN pre.rentals \cup {r}
       /\ \A k \in DOMAIN pre.rentals : rentals[k] = pre.rentals[k]
       /\ rentals[r].itemId = i
       /\ rentals[r].renter = tx.caller
       /\ rentals[r].amountPaid = tx.due
       /\ items = [pre.items EXCEPT ![i].totalRentals = @ + 1,
                                    ![i].totalRevenue = @ + tx.due]
       /\ userRentals = [pre.userRentals EXCEPT ![tx.caller] = Append(@, r)]
       /\ hasRented = pre.hasRented \cup {<<i, tx.caller>>}
       /\ RentersAt(itemRenters, i) =
              IF <<i, tx.caller>> \in pre.hasRented
              THEN RentersAt(pre.itemRenters, i)
              ELSE Append(RentersAt(pre.itemRenters, i), tx.caller)
       /\ ownershipHistory = pre.ownershipHistory
       /\ userItems = pre.userItems

\* C3: while purchaseItem or rentItem is making its payouts the bookkeeping is
\* already complete and stays as it is (before the first transfer no money has left
\* the ledger), and no purchaseItem or rentItem called by a payee from inside a
\* payout succeeds: one purchase appends exactly one ownership record.
C3_BookkeepingBeforePayout ==
    tx.pc # "idle" =>
        /\ ~tx.innerOk
        /\ itemIds = pre.itemIds
        /\ tx.op = "purchaseItem" => BooksOfPurchase
        /\ tx.op = "rentItem" => BooksOfRent
        /\ tx.pc = "payOwner" =>
               /\ balance[LedgerAddr] = pre.balance[LedgerAddr] + tx.value
               /\ balance[tx.payee] = pre.balance[tx.payee]

\* a payee has called back during the first payout of a purchase, and failed
C3_Witness ==
    /\ tx.pc = "payOwner"
    /\ tx.op = "purchaseItem"
    /\ tx.reentered

\* C4: a call that fails, on a precondition or on a payout or refund that fails,
\* leaves items, rentals, histories, indices, renter lists, both counters and all
\* balances exactly as they were when it was made.
C4_AllOrNothing ==
    (tx.pc = "idle" /\ last.op # "none" /\ ~last.ok) => Snapshot = pre

\* a rental failed at a transfer, after its bookkeeping had been written
C4_Witness ==
    /\ Returned("rentItem")
    /\ last.err = "Transfer failed"

\* C5: purchaseItem fails whenever the item's price is 0 (with "Item is not for
\* sale" once the item is found active), whenever the payment is below the price
\* (with "Insufficient payment") and whenever the caller is the current owner; a
\* purchase that succeeds had a positive price, a payment of at least the price and a
\* caller other than the owner; a failed purchase leaves every owner as it was.
C5_PurchaseRejections ==
    /\ Ready =>
           \A c \in Accounts, i \in 1 .. itemIds :
              \A v \in PaymentChoices(items[i].price) \cup {0} :
                 LET err == PurchaseItemErr(Snapshot, c, i, v)
                 IN /\ items[i].price = 0 =>
                          err # "" /\ (items[i].isActive => err = "Item is not for sale")
                    /\ v < items[i].price =>
                          err # "" /\ (items[i].isActive => err = "Insufficient payment")
                    /\ c = items[i].owner => err # ""
    /\ Ok("purchaseItem") =>
           /\ pre.items[last.itemId].price > 0
           /\ last.refund >= 0
           /\ last.caller # pre.items[last.itemId].owner
    /\ (Returned("purchaseItem") /\ ~last.ok) =>
           \A i \in DOMAIN items : items[i].owner = pre.items[i].owner

\* a purchase of an item whose price is 0 has just failed
C5_Witness ==
    /\ Returned("purchaseItem")
    /\ last.err = "Item is not for sale"

\* C6: after a successful purchaseItem(itemId) the ownership history of the item is
\* one longer than before, its last entry names the purchaser and the item's price
\* at the time of the purchase, and the item's stored owner is the purchaser.
C6_PurchaseAppendsHistory ==
    Ok("purchaseItem") =>
        LET i == last.itemId
            h == GetOwnershipHistory(i)
        IN /\ Len(h) = Len(pre.ownershipHistory[i]) + 1
           /\ \A k \in 1 .. Len(pre.ownershipHistory[i]) : h[k] = pre.ownershipHistory[i][k]
           /\ h[Len(h)].owner = last.caller
           /\ h[Len(h)].price = pre.items[i].price
           /\ items[i].owner = last.caller

\* a purchase with an overpayment has just succeeded
C6_Witness ==
    /\ Ok("purchaseItem")
    /\ last.refund > 0
    /\ Len(GetOwnershipHistory(last.itemId)) = 2

\* the balances after a payable call in which `payer` owed `amount` to `payee`
Settled(payer, payee, amount) ==
    \A a \in DOMAIN balance :
        balance[a] = pre.balance[a]
                     + (IF a = payee THEN amount ELSE 0)
                     - (IF a = payer THEN amount ELSE 0)

\* C7: a successful purchaseItem moves exactly item.price from the caller to the
\* account that owned the item before the call, a successful rentItem moves exactly
\* the computed cost from the caller to the item's owner, the refund is the payment
\* less the amount due, and no other balance changes.
C7_ExactSettlement ==
    /\ Ok("purchaseItem") =>
           Settled(last.caller, pre.items[last.itemId].owner, pre.items[last.itemId].price)
    /\ Ok("rentItem") =>
           Settled(last.caller, pre.items[last.itemId].owner, rentals[last.ret].amountPaid)
    /\ tx.pc = "refund" =>
           /\ balance[tx.caller] = pre.balance[tx.caller] - tx.value
           /\ balance[LedgerAddr] = pre.balance[LedgerAddr] + tx.value - tx.due
           /\ balance[tx.payee] = pre.balance[tx.payee] + tx.due

\* a rental paid with more than its cost has just succeeded
C7_Witness ==
    /\ Ok("rentItem")
    /\ last.refund > 0
    /\ rentals[last.ret].amountPaid > 0

\* C8: the cost stored and charged by a successful rentItem is
\* floor((endTime - startTime) * rentalPrice / 86400) at the item's rentalPrice when
\* the call was made (100 a day for 129600 s gives 150), and a rentItem that meets
\* every other requirement fails with "Insufficient payment for rental" exactly when
\* the payment is below that cost.
C8_RentalCost ==
    /\ RentalCost(0, 129600, 100) = 150
    /\ Ok("rentItem") =>
           LET r == rentals[last.ret]
               cost == ((r.endTime - r.startTime) * pre.items[r.itemId].rentalPrice) \div 86400
           IN /\ r.amountPaid = cost
              /\ pre.balance[last.caller] - balance[last.caller] = cost
              /\ items[r.itemId].totalRevenue = pre.items[r.itemId].totalRevenue + cost
    /\ Ready =>
           \A c \in Accounts, i \in 1 .. itemIds :
              \A p \in ValidPeriods(now) \cup InvalidPeriods(now) :
                 LET cost == ((p[2] - p[1]) * items[i].rentalPrice) \div 86400
                 IN \A v \in PaymentChoices(cost) :
                       LET err == RentItemErr(Snapshot, c, i, p[1], p[2], v, now)
                           short == err = "Insufficient payment for rental"
                       IN /\ short => v < cost
                          /\ (/\ items[i].isActive
                              /\ items[i].rentalPrice > 0
                              /\ c # items[i].owner
                              /\ p \in ValidPeriods(now)
                              /\ v < cost) => short

\* a rental whose cost was rounded down has just succeeded
C8_Witness ==
    /\ Ok("rentItem")
    /\ LET r == rentals[last.ret]
       IN /\ ((r.endTime - r.startTime) * pre.items[r.itemId].rentalPrice) % 86400 # 0
          /\ r.amountPaid > 0

\* C9: a rentItem that succeeds was made for an existing active item with a positive
\* rentalPrice by an account other than its owner, with startTime >= now,
\* endTime > startTime and endTime <= now + 365 days; every stored rental ends after
\* it starts and spans at most one year.
C9_RentPreconditions ==
    /\ Ok("rentItem") =>
           LET r == rentals[last.ret]
               i == last.itemId
           IN /\ i \in 1 .. pre.itemIds
              /\ r.itemId = i
              /\ pre.items[i].isActive
              /\ pre.items[i].rentalPrice > 0
              /\ last.caller # pre.items[i].owner
              /\ r.renter = last.caller
              /\ r.startTime >= now
              /\ r.endTime > r.startTime
              /\ r.endTime <= now + 365 * 86400
    /\ tx.pc = "idle" =>
           \A k \in DOMAIN rentals :
              /\ rentals[k].endTime > rentals[k].startTime
              /\ rentals[k].endTime - rentals[k].startTime <= 365 * 86400

\* a rental that ends exactly one year from now has just succeeded
C9_Witness ==
    /\ Ok("rentItem")
    /\ rentals[last.ret].endTime = now + 365 * 86400

\* the times around every stored rental, and the current time
TimePoints ==
    {now} \cup UNION {{rentals[k].startTime - 1, rentals[k].startTime,
                       rentals[k].endTime, rentals[k].endTime + 1} : k \in DOMAIN rentals}

\* C10: hasActiveRental(itemId, u) is true at a time t exactly when some stored
\* rental of that item by u has startTime <= t <= endTime: true throughout the
\* interval of every rental rentItem created, false outside all of them, whatever
\* the stored active flag.
C10_ActiveByInterval ==
    \A u \in Accounts, i \in 0 .. itemIds + 1, t \in TimePoints :
        HasActiveRental(i, u, t) <=>
            \E k \in DOMAIN rentals :
                /\ rentals[k].itemId = i
                /\ rentals[k].renter = u
                /\ rentals[k].startTime <= t
                /\ t <= rentals[k].endTime

\* the clock has reached the last second of a rental that began in the future
C10_Witness ==
    /\ tx.pc = "idle"
    /\ \E k \in DOMAIN rentals :
          /\ rentals[k].endTime = now
          /\ rentals[k].startTime > 0
          /\ HasActiveRental(rentals[k].itemId, rentals[k].renter, now)

\* the identifiers of a page of items, in the order of the page
PageIds(page) == [k \in DOMAIN page |-> page[k].itemId]

\* C11: getActiveItems(offset, limit) fails exactly when offset >= getTotalItems();
\* otherwise its result lists, in ascending identifier order and as stored, exactly
\* the items with identifier in offset+1 .. min(offset+limit, total) whose active
\* flag is true, so it can be shorter than limit (items 1..5 with item 3
\* deactivated, offset 0, limit 5: items 1, 2, 4, 5).
C11_ActiveItemsPage ==
    Returned("getActiveItems") =>
        LET o == last.args[1]
            l == last.args[2]
            total == GetTotalItems
            hi == IF o + l < total THEN o + l ELSE total
            want == {i \in (o + 1) .. hi : items[i].isActive}
            page == last.ret
        IN /\ last.ok <=> ~(o >= total)
           /\ ~last.ok => last.err = "Offset out of bounds"
           /\ last.ok =>
                 /\ {page[k].itemId : k \in DOMAIN page} = want
                 /\ Len(page) = Cardinality(want)
                 /\ Len(page) <= l
                 /\ \A k \in DOMAIN page : page[k] = items[page[k].itemId]
                 /\ \A j, k \in DOMAIN page : j < k => page[j].itemId < page[k].itemId
                 /\ (/\ total = 5
                     /\ {i \in 1 .. 5 : items[i].isActive} = {1, 2, 4, 5}
                     /\ o = 0
                     /\ l = 5) => PageIds(page) = <<1, 2, 4, 5>>
           /\ Snapshot = pre

\* five items, the third delisted: the page of the first five has four entries
C11_Witness ==
    /\ Ok("getActiveItems")
    /\ last.args = <<0, 5>>
    /\ GetTotalItems = 5
    /\ ~items[3].isActive
    /\ PageIds(last.ret) = <<1, 2, 4, 5>>

\* C12 (as the claim states it): in every reachable state of a deployed ledger, the
\* state with no items included, getTotalItems() and getActiveItems(0, 10) return a
\* result without failing.
C12_ReadsNeverFail ==
    /\ GetTotalItems >= 0
    /\ (Returned("getActiveItems") /\ last.args = <<0, 10>>) => last.ok

\* C13 (as the specification states it): deactivateItem is idempotent in effect. The
\* item is inactive after the owner's call, a call by the owner of an item that is
\* already inactive has the outcome of the first call, so the only failure a
\* deactivateItem ever reports is the authorization error, and an account other than
\* the owner gets that error whether the item is active or not.
C13_DeactivateIdempotent ==
    /\ Ok("deactivateItem") => ~items[last.itemId].isActive
    /\ (Returned("deactivateItem") /\ ~last.ok) => last.err = "Not the item owner"
    /\ Ready =>
           \A i \in 1 .. itemIds, c \in Accounts :
              c # items[i].owner =>
                  DeactivateItemErr(itemIds, items, i, c) = "Not the item owner"

\* C14: updateItemPrices and deactivateItem succeed only for the caller that is the
\* item's stored owner when the call is made, and every other caller gets "Not the
\* item owner"; once B has bought an item from A, updateItemPrices(200, 60) by B
\* passes and the same call by A fails with "Not the item owner".
C14_OwnerOnly ==
    /\ (Ok("updateItemPrices") \/ Ok("deactivateItem")) =>
           /\ last.itemId \in 1 .. pre.itemIds
           /\ last.caller = pre.items[last.itemId].owner
           /\ last.caller = items[last.itemId].owner
    /\ Ready =>
           \A i \in 1 .. itemIds, c \in Accounts :
              c # items[i].owner =>
                  /\ DeactivateItemErr(itemIds, items, i, c) = "Not the item owner"
                  /\ \A p \in Prices, r \in RentalPrices :
                        UpdateItemPricesErr(itemIds, items, i, c, p, r) = "Not the item owner"
    /\ Ok("purchaseItem") =>
           LET i == last.itemId
               A == pre.items[i].owner
               B == last.caller
           IN /\ UpdateItemPricesErr(itemIds, items, i, B, 200, 60) = ""
              /\ UpdateItemPricesErr(itemIds, items, i, A, 200, 60) = "Not the item owner"

\* the buyer of an item has just changed its prices
C14_Witness ==
    /\ Ok("updateItemPrices")
    /\ Len(ownershipHistory[last.itemId]) = 2
    /\ ownershipHistory[last.itemId][2].owner = last.caller
    /\ ownershipHistory[last.itemId][1].owner # last.caller

\* C15: an item whose active flag is false keeps it false in every later state, and
\* nothing of it changes again: no purchaseItem, rentItem or updateItemPrices on it
\* succeeds, so its owner, prices, counters and ownership history stay as they are.
C15_InactiveIsTerminal ==
    /\ [](/\ (Ok("purchaseItem") \/ Ok("rentItem") \/ Ok("updateItemPrices")) =>
                pre.items[last.itemId].isActive
          /\ (tx.pc # "idle") => pre.items[tx.itemId].isActive
          /\ Ready =>
                \A i \in 1 .. itemIds :
                   ~items[i].isActive =>
                      \A c \in Accounts :
                         /\ PurchaseItemErr(Snapshot, c, i, items[i].price) # ""
                         /\ RentItemErr(Snapshot, c, i, now, now + OneDay,
                                        items[i].rentalPrice, now) # ""
                         /\ UpdateItemPricesErr(itemIds, items, i, c, 200, 60) # "")
    /\ [][\A i \in DOMAIN items :
             ~items[i].isActive =>
                 /\ i \in DOMAIN items'
                 /\ items'[i] = items[i]
                 /\ ownershipHistory'[i] = ownershipHistory[i]]_vars

\* the owner of a deactivated item has tried to change its prices, and failed
C15_Witness ==
    /\ Returned("updateItemPrices")
    /\ last.err = "Item is not active"
    /\ \E i \in DOMAIN items : ~items[i].isActive

\* what the calls that have returned have left: the state a call in progress
\* started from, until that call returns
Committed == IF tx.pc = "idle" THEN Snapshot ELSE pre

IsPrefix(s, t) == Len(s) <= Len(t) /\ \A k \in 1 .. Len(s) : s[k] = t[k]

\* C16: each item's ownership history is append-only: its committed value in any
\* state is a prefix of its committed value in the next; createItem leaves exactly
\* the record (creator, price 0), which stays first; its length is 1 + the number of
\* successful purchases of the item; and the owner of its last record is the item's
\* stored owner.
C16_HistoryAppendOnly ==
    /\ [](/\ DOMAIN ownershipHistory = 1 .. itemIds
          /\ \A i \in 1 .. itemIds :
                LET h == ownershipHistory[i]
                IN /\ Len(h) >= 1
                   /\ h[1].price = 0
                   /\ h[Len(h)].owner = items[i].owner
          /\ \A i \in 1 .. Committed.itemIds :
                Len(Committed.ownershipHistory[i]) = 1 + purchaseCount[i]
          /\ Ok("createItem") =>
                ownershipHistory[last.ret] = <<[owner |-> last.caller, timestamp |-> now,
                                               price |-> 0]>>)
    /\ [][\A i \in 1 .. Committed.itemIds :
             /\ i \in 1 .. Committed'.itemIds
             /\ IsPrefix(Committed.ownershipHistory[i], Committed'.ownershipHistory[i])]_vars

\* an item has been sold twice: three records, the last one naming its owner
C16_Witness ==
    /\ tx.pc = "idle"
    /\ \E i \in 1 .. itemIds :
          /\ Len(ownershipHistory[i]) = 3
          /\ purchaseCount[i] = 2
          /\ ownershipHistory[i][3].owner = items[i].owner

\* what createItem asks of its arguments
ValidCreateArgs(title, blobId, price, rentalPrice) ==
    title # "" /\ blobId # "" /\ (price > 0 \/ rentalPrice > 0)

\* C17: createItem succeeds exactly when the title is non-empty, the content
\* reference is non-empty and at least one of price and rentalPrice is positive,
\* whoever calls it and whatever titles are already registered; in every other case
\* it fails, with the message of the first requirement that is not met.
C17_CreateItemPreconditions ==
    /\ [](/\ \A a \in CreateArgs :
                (CreateItemErr(a[1], a[2], a[3], a[4]) = "")
                    <=> ValidCreateArgs(a[1], a[2], a[3], a[4])
          /\ Ok("createItem") =>
                LET it == items[last.ret]
                IN ValidCreateArgs(it.title, it.blobId, it.price, it.rentalPrice)
          /\ (Returned("createItem") /\ ~last.ok) =>
                last.err \in {"Title cannot be empty", "Blob ID cannot be empty",
                              "Must set either purchase or rental price"})
    /\ [][(Ready /\ last'.op = "createItem") =>
             \A c \in Creators, a \in CreateArgs :
                CreateItem(c, a[1], a[2], a[3], a[4]) =>
                    (last'.ok <=> ValidCreateArgs(a[1], a[2], a[3], a[4]))]_vars

\* a second item has just been registered under a title that was already taken,
\* by another account
C17_Witness ==
    /\ Ok("createItem")
    /\ last.ret = 2
    /\ items[1].title = items[2].title
    /\ items[1].owner # items[2].owner

\* C18: after a successful createItem by c that returned n, getItem(n) has owner c,
\* active = true, totalRentals = 0, totalRevenue = 0 and the title, content reference
\* and prices that were supplied; getOwnershipHistory(n) is the one record
\* (c, price 0); n is the new last entry of c's item index; and no other item,
\* history, index, rental or balance has changed.
C18_CreateItemEffect ==
    /\ [](Ok("createItem") =>
             LET n == last.ret
                 c == last.caller
             IN /\ n = pre.itemIds + 1
                /\ items[n].itemId = n
                /\ items[n].owner = c
                /\ items[n].isActive
                /\ items[n].totalRentals = 0
                /\ items[n].totalRevenue = 0
                /\ GetOwnershipHistory(n) = <<[owner |-> c, timestamp |-> now, price |-> 0]>>
                /\ userItems = [pre.userItems EXCEPT ![c] = Append(@, n)]
                /\ DOMAIN items = DOMAIN pre.items \cup {n}
                /\ \A i \in DOMAIN pre.items : items[i] = pre.items[i]
                /\ DOMAIN ownershipHistory = DOMAIN pre.ownershipHistory \cup {n}
                /\ \A i \in DOMAIN pre.ownershipHistory :
                      ownershipHistory[i] = pre.ownershipHistory[i]
                /\ rentalIds = pre.rentalIds
                /\ rentals = pre.rentals
                /\ userRentals = pre.userRentals
                /\ hasRented = pre.hasRented
                /\ itemRenters = pre.itemRenters
                /\ balance = pre.balance)
    /\ [][(Ready /\ last'.op = "createItem" /\ last'.ok) =>
             \A c \in Creators, a \in CreateArgs :
                CreateItem(c, a[1], a[2], a[3], a[4]) =>
                    LET it == items'[last'.ret]
                    IN /\ last'.caller = c
                       /\ it.title = a[1]
                       /\ it.blobId = a[2]
                       /\ it.price = a[3]
                       /\ it.rentalPrice = a[4]
                       /\ it.createdAt = now]_vars

\* an account that owns an item registers another, rent-only, while a rental exists
C18_Witness ==
    /\ Ok("createItem")
    /\ Len(userItems[last.caller]) = 2
    /\ items[last.ret].price = 0
    /\ items[last.ret].rentalPrice = 60
    /\ rentalIds = 1


\* C19: a successful purchaseItem appends the item identifier to the buyer's item
\* index and leaves every other index, the previous owner's included, as it was; no
\* operation removes an entry from an index (each committed index is a prefix of its
\* next value); so getUserItems(x) always lists every item x owns, and may list
\* items x no longer owns.
C19_ItemIndexOnlyGrows ==
    /\ [](/\ Ok("purchaseItem") =>
                LET i == last.itemId
                    buyer == last.caller
                    seller == pre.items[i].owner
                IN /\ GetUserItems(buyer) = Append(pre.userItems[buyer], i)
                   /\ GetUserItems(seller) = pre.userItems[seller]
                   /\ \A x \in Accounts \ {buyer} : GetUserItems(x) = pre.userItems[x]
          /\ \A i \in 1 .. itemIds :
                /\ items[i].owner \in Accounts
                /\ \E k \in DOMAIN GetUserItems(items[i].owner) :
                      GetUserItems(items[i].owner)[k] = i)
    /\ [][\A x \in Accounts :
             IsPrefix(Committed.userItems[x], Committed'.userItems[x])]_vars

\* an account's index still lists an item it has sold
C19_Witness ==
    /\ Ok("purchaseItem")
    /\ LET seller == pre.items[last.itemId].owner
       IN /\ items[last.itemId].owner # seller
          /\ \E k \in DOMAIN GetUserItems(seller) : GetUserItems(seller)[k] = last.itemId

\* C20: every existing item has price > 0 or rentalPrice > 0 in every reachable
\* state: createItem and updateItemPrices both reject a pair of zero prices, and a
\* successful updateItemPrices(id, p, r) leaves the item with price p and
\* rentalPrice r exactly (a supplied 0 clears that price) and changes nothing else.
C20_PricesNeverBothZero ==
    /\ [](/\ \A i \in 1 .. itemIds : items[i].price > 0 \/ items[i].rentalPrice > 0
          /\ CreateItemErr("Paper A", "cid", 0, 0) # ""
          /\ Ready =>
                \A i \in 1 .. itemIds, c \in Accounts :
                   UpdateItemPricesErr(itemIds, items, i, c, 0, 0) # ""
          /\ Ok("updateItemPrices") =>
                LET i == last.itemId
                IN /\ items = [pre.items EXCEPT ![i].price = items[i].price,
                                                ![i].rentalPrice = items[i].rentalPrice]
                   /\ [Snapshot EXCEPT !.items = pre.items] = pre)
    /\ [][(Ready /\ last'.op = "updateItemPrices" /\ last'.ok) =>
             \A c \in Accounts, i \in ItemIdInputs, p \in Prices, r \in RentalPrices :
                UpdateItemPrices(c, i, p, r) =>
                    /\ last'.itemId = i
                    /\ items'[i].price = p
                    /\ items'[i].rentalPrice = r]_vars

\* an owner has just taken an item off sale by setting its price to 0
C20_Witness ==
    /\ Ok("updateItemPrices")
    /\ pre.items[last.itemId].price > 0
    /\ items[last.itemId].price = 0
    /\ items[last.itemId].rentalPrice > 0

\* the stored rentals of an item, and the sum of what was paid for them
RentalsOf(rs, i) == {k \in DOMAIN rs : rs[k].itemId = i}

RECURSIVE SumPaid(_, _)
SumPaid(rs, ks) ==
    IF ks = {} THEN 0
    ELSE LET k == CHOOSE x \in ks : TRUE
         IN rs[k].amountPaid + SumPaid(rs, ks \ {k})

\* C21: an item's totalRentals and totalRevenue never decrease and change only with
\* a successful rentItem on that item, by +1 and by the cost; in every state
\* totalRentals is the number of stored rentals of the item and totalRevenue the sum
\* of their amountPaid; createItem, purchaseItem, updateItemPrices and deactivateItem
\* leave the totals of every existing item as they were.
C21_RentalTotals ==
    /\ [](/\ \A i \in 1 .. itemIds :
                /\ items[i].totalRentals = Cardinality(RentalsOf(rentals, i))
                /\ items[i].totalRevenue = SumPaid(rentals, RentalsOf(rentals, i))
          /\ (Ok("purchaseItem") \/ Ok("updateItemPrices") \/ Ok("deactivateItem")
                \/ Ok("createItem")) =>
                \A i \in 1 .. pre.itemIds :
                   /\ items[i].totalRentals = pre.items[i].totalRentals
                   /\ items[i].totalRevenue = pre.items[i].totalRevenue
          /\ Ok("rentItem") =>
                \A i \in 1 .. itemIds :
                   /\ items[i].totalRentals = pre.items[i].totalRentals
                                              + (IF i = last.itemId THEN 1 ELSE 0)
                   /\ items[i].totalRevenue =
                         pre.items[i].totalRevenue
                         + (IF i = last.itemId THEN rentals[last.ret].amountPaid ELSE 0))
    /\ [][\A i \in 1 .. Committed.itemIds :
             LET before == Committed.items[i]
                 after == Committed'.items[i]
             IN /\ after.totalRentals >= before.totalRentals
                /\ after.totalRevenue >= before.totalRevenue
                /\ (after.totalRentals # before.totalRentals
                    \/ after.totalRevenue # before.totalRevenue) =>
                       /\ last'.op = "rentItem"
                       /\ last'.ok
                       /\ last'.itemId = i]_vars

\* an item has been rented twice, for a positive total
C21_Witness ==
    /\ Ok("rentItem")
    /\ items[last.itemId].totalRentals = 2
    /\ items[last.itemId].totalRevenue > rentals[last.ret].amountPaid
    /\ rentals[last.ret].amountPaid > 0

\* C22: the renter list of an item never names an account twice; an account is in
\* getItemRenters(itemId) exactly when its has-rented flag for the item is set, and
\* exactly when a stored rental of the item is its own; a rental of an item the
\* caller has rented before adds the new rental to the caller's rental index and
\* leaves every renter list as it was.
C22_RentersListedOnce ==
    /\ \A i \in 0 .. itemIds + 1 :
          LET list == GetItemRenters(i)
          IN /\ \A j, k \in DOMAIN list : j # k => list[j] # list[k]
             /\ \A a \in Accounts :
                   /\ (\E k \in DOMAIN list : list[k] = a) <=> (<<i, a>> \in hasRented)
                   /\ (<<i, a>> \in hasRented) <=>
                         (\E r \in DOMAIN rentals :
                             rentals[r].itemId = i /\ rentals[r].renter = a)
    /\ Ok("rentItem") =>
          /\ GetUserRentals(last.caller) = Append(pre.userRentals[last.caller], last.ret)
          /\ <<last.itemId, last.caller>> \in pre.hasRented => itemRenters = pre.itemRenters
          /\ <<last.itemId, last.caller>> \notin pre.hasRented =>
                GetItemRenters(last.itemId) =
                    Append(RentersAt(pre.itemRenters, last.itemId), last.caller)

\* an account has just rented an item for the second time
C22_Witness ==
    /\ Ok("rentItem")
    /\ <<last.itemId, last.caller>> \in pre.hasRented
    /\ Len(GetUserRentals(last.caller)) = 2
    /\ Len(GetItemRenters(last.itemId)) = 1

\* C23: once rentItem has created rental r, getRental(r) returns the same record
\* (item, renter, start, end, amountPaid, active flag true) in every later state:
\* the record a returned rentItem stored is the one the call built, no later step
\* (another call, time passing endTime, the item's deactivation or sale) changes or
\* removes it, and the stored active flag of every rental is true.
C23_RentalsImmutable ==
    /\ [](/\ \A r \in DOMAIN rentals :
                /\ rentals[r].isActive
                /\ rentals[r].rentalId = r
                /\ GetRentalErr(rentalIds, r) = ""
                /\ GetRental(r) = rentals[r]
          /\ DOMAIN rentals = 1 .. rentalIds
          /\ Ok("rentItem") =>
                /\ last.ret = pre.rentalIds + 1
                /\ GetRental(last.ret).itemId = last.itemId
                /\ GetRental(last.ret).renter = last.caller)
    /\ [][\A r \in 1 .. Committed.rentalIds :
             /\ r \in 1 .. Committed'.rentalIds
             /\ Committed'.rentals[r] = Committed.rentals[r]]_vars

\* a rental has ended and its item has been deactivated: the record is still stored
C23_Witness ==
    /\ tx.pc = "idle"
    /\ \E r \in DOMAIN rentals :
          /\ now > GetRental(r).endTime
          /\ ~items[GetRental(r).itemId].isActive
          /\ GetRental(r).isActive

\* C24 (as the specification states it): every operation that takes an item or
\* rental identifier fails for an identifier that was never allocated: getItem,
\* getOwnershipHistory and getItemRenters outside 1 .. getTotalItems(), getRental
\* outside 1 .. getTotalRentals(), and purchaseItem, rentItem, updateItemPrices and
\* deactivateItem outside 1 .. getTotalItems(); identifier 0 is never valid.
C24_UnallocatedIdsFail ==
    /\ \A id \in {0, GetTotalItems + 1} :
          /\ GetItemErr(itemIds, id) # ""
          /\ GetOwnershipHistoryErr(itemIds, id) # ""
          /\ GetItemRentersErr(itemIds, id) # ""
          /\ Ready =>
                \A c \in Accounts :
                   /\ PurchaseItemErr(Snapshot, c, id, 0) # ""
                   /\ RentItemErr(Snapshot, c, id, now, now + 1, 0, now) # ""
                   /\ UpdateItemPricesErr(itemIds, items, id, c, 200, 60) # ""
                   /\ DeactivateItemErr(itemIds, items, id, c) # ""
    /\ \A id \in {0, GetTotalRentals + 1} : GetRentalErr(rentalIds, id) # ""

\* C28: the ledger never retains funds. Between calls its balance is the one it was
\* deployed with (0): every successful purchaseItem and rentItem pays out exactly
\* what it received, the amount due to the owner and the excess to the caller, and a
\* failed call keeps nothing; no money appears or disappears; so emergencyWithdraw
\* always fails, for the owner with "No balance to withdraw".
C28_LedgerHoldsNothing ==
    /\ tx.pc = "idle" => balance[LedgerAddr] = 0
    /\ balance[LedgerAddr] >= 0
    /\ balance["a1"] + balance["a2"] + balance["a3"] + balance[LedgerAddr]
          = 3 * InitBalance
    /\ tx.pc = "payOwner" => balance[LedgerAddr] = tx.value
    /\ tx.pc = "refund" => balance[LedgerAddr] = tx.value - tx.due
    /\ (Ok("purchaseItem") \/ Ok("rentItem")) =>
          balance[LedgerAddr] = pre.balance[LedgerAddr]
    /\ Returned("emergencyWithdraw") =>
          /\ ~last.ok
          /\ last.err \in {"No balance to withdraw", "OwnableUnauthorizedAccount"}
          /\ Snapshot = pre
    /\ Ready => EmergencyWithdrawErr(balance, Deployer) = "No balance to withdraw"

\* after a sale and a rental the owner of the ledger finds nothing to withdraw
C28_Witness ==
    /\ Returned("emergencyWithdraw")
    /\ last.err = "No balance to withdraw"
    /\ rentalIds = 1
    /\ \E i \in 1 .. itemIds : Len(ownershipHistory[i]) = 2
    /\ \E a \in Accounts : balance[a] > InitBalance

\* C29: because the cost is truncated, a rentItem with payment 0 on an active item
\* with rentalPrice > 0 passes every requirement whenever
\* (endTime - startTime) * rentalPrice < 86400, the period is valid and the caller is
\* not the owner; when such a rental has succeeded it is stored with amountPaid = 0,
\* totalRentals is one more, totalRevenue and the owner's balance are as before, and
\* hasActiveRental(item, renter) is true from startTime to endTime.
C29_FreeShortRental ==
    /\ Ready =>
          \A c \in Accounts, i \in 1 .. itemIds, p \in ValidPeriods(now) :
             (/\ items[i].isActive
              /\ items[i].rentalPrice > 0
              /\ c # items[i].owner
              /\ (p[2] - p[1]) * items[i].rentalPrice < 86400) =>
                 RentItemErr(Snapshot, c, i, p[1], p[2], 0, now) = ""
    /\ Ok("rentItem") =>
          LET r == GetRental(last.ret)
              i == last.itemId
          IN (r.endTime - r.startTime) * pre.items[i].rentalPrice < 86400 =>
                /\ r.amountPaid = 0
                /\ items[i].totalRentals = pre.items[i].totalRentals + 1
                /\ items[i].totalRevenue = pre.items[i].totalRevenue
                /\ balance[items[i].owner] = pre.balance[items[i].owner]
                /\ balance[last.caller] = pre.balance[last.caller]
                /\ HasActiveRental(i, last.caller, r.startTime)
                /\ HasActiveRental(i, last.caller, r.endTime)
                /\ (r.startTime <= now /\ now <= r.endTime) =>
                       HasActiveRental(i, last.caller, now)

\* an account has just rented a priced item for one second, and paid nothing
C29_Witness ==
    /\ Ok("rentItem")
    /\ pre.items[last.itemId].rentalPrice > 0
    /\ GetRental(last.ret).amountPaid = 0
    /\ last.refund = 0
    /\ balance[last.caller] = pre.balance[last.caller]
    /\ HasActiveRental(last.itemId, last.caller, now)

(* ====================== properties of the client ======================= *)
\* C25: when the underlying ledger call fails, every read method of the client
\* (getItem, getRental, getActiveItems, getUserItems, getUserRentals, getItemRenters,
\* getOwnershipHistory, hasActiveRental, getTotalItems, getTotalRentals) returns an
\* empty collection or a zero/false default instead of propagating the failure, and
\* every write method propagates it.
C25_ReadsDegradeWritesPropagate ==
    (app.pc = "done" /\ app.failed) =>
        /\ app.method \in ReadMethods =>
              /\ app.outcome = "default"
              /\ app.result = ReadDefault(app.method)
        /\ app.method \in WriteMethods => app.outcome = "thrown"

\* C26: once its transaction is confirmed, createItem of the client returns the
\* identifier in the ItemCreated log when it parsed one, and that is the identifier the
\* ledger gave to this call whatever other createItem calls commit before or after;
\* otherwise it returns the item count read at that moment; otherwise 1.
C26_CreatedIdFallbackChain ==
    /\ []((app.pc = "done" /\ app.method = "createItem" /\ app.outcome = "returned") =>
             /\ app.parsed =>
                   /\ app.result = createdIds[app.nth]
                   /\ ItemAt(Committed.items, app.result).owner = app.caller
             /\ (~app.parsed /\ ~app.countRead) => app.result = 1)
    /\ [][(app.pc = "confirmed" /\ app'.pc = "done" /\ app'.countRead) =>
             app'.result = itemIds]_vars

\* the count stood in for the log after another account had created an item: the client
\* returns that account's identifier
C26_Witness ==
    /\ app.pc = "done" /\ app.method = "createItem" /\ app.outcome = "returned"
    /\ ~app.parsed /\ app.countRead
    /\ app.result > createdIds[app.nth]
    /\ items[app.result].owner # app.caller
    /\ items[createdIds[app.nth]].owner = app.caller

(* ==================== properties of the blob store ===================== *)
\* C27: uploadToIPFS never fails: it returns a placeholder with the prefix mock-cid-
\* when the store is not configured or the upload fails, and a real content identifier
\* otherwise; downloadFromIPFS on a placeholder always fails without contacting the
\* store, and the download endpoint answers 404 for a placeholder and never returns
\* bytes for it.
C27_PlaceholdersNeverDownload ==
    app.pc = "blob" =>
        /\ app.call.op = "uploadToIPFS" =>
              /\ ~app.call.threw
              /\ app.call.ret[1] = MockPrefix <=> (~app.configured \/ ~app.call.uploaded)
              /\ app.call.ret[1] # MockPrefix => app.call.ret = IpfsHash(app.call.arg[1])
        /\ (app.call.op = "downloadFromIPFS" /\ app.call.arg # <<>>
               /\ app.call.arg[1] = MockPrefix) =>
              app.call.threw /\ ~app.call.contacted
        /\ (app.call.op = "GET" /\ app.call.arg # <<>> /\ app.call.arg[1] = MockPrefix) =>
              /\ app.call.status = 404
              /\ ~app.call.contacted
              /\ app.call.ret = <<"error">>

\* a configured store refused an upload, and the placeholder it handed out instead was
\* asked for at the download endpoint
C27_Witness ==
    /\ app.pc = "blob"
    /\ app.configured
    /\ app.call.op = "GET"
    /\ app.call.arg \in app.issued
    /\ app.call.status = 404

(* ================= properties of the marketplace page ================== *)
\* C30: when the rent action of the page for d whole days has completed successfully
\* (payment rentalPrice * d, start = client time + 60 s, end = start + d * 86400 s), the
\* renter can download the file right away: at the refresh of the item list that the
\* page schedules 5 seconds after confirmation, hasActiveRental(item, renter) is true
\* and the download control of the item is enabled.
C30_DownloadRightAfterRent ==
    app.pc = "refreshed" =>
        /\ HasActiveRental(app.itemId, app.user, now)
        /\ DownloadEnabled(app.shown, app.itemId)

(* ------------------------------ system --------------------------------- *)
Init ==
    /\ itemIds = 0
    /\ rentalIds = 0
    /\ items = <<>>
    /\ rentals = <<>>
    /\ ownershipHistory = <<>>
    /\ userItems = [a \in Accounts |-> <<>>]
    /\ userRentals = [a \in Accounts |-> <<>>]
    /\ hasRented = {}
    /\ itemRenters = <<>>
    /\ balance = [a \in Accounts \cup {LedgerAddr} |->
                     IF a = LedgerAddr THEN 0 ELSE InitBalance]
    /\ status = NOT_ENTERED
    /\ now = 0
    /\ tx = Idle
    /\ pre = NoSnapshot
    /\ last = NoCall
    /\ ops = 0
    /\ createdIds = <<>>
    /\ purchaseCount = <<>>
    /\ app = NoApp

Next ==
    \/ \E s \in Creators, a \in CreateArgs : CreateItem(s, a[1], a[2], a[3], a[4])
    \/ \E s \in Accounts, i \in ItemIdInputs, p \in Prices, r \in RentalPrices :
          UpdateItemPrices(s, i, p, r)
    \/ \E s \in Accounts, i \in ItemIdInputs : DeactivateItem(s, i)
    \/ \E s \in Accounts, a \in PurchaseInputs : PurchaseItem(s, a[1], a[2])
    \/ \E s \in Accounts, a \in RentInputs : RentItem(s, a[1], a[2], a[3], a[4])
    \/ \E ok \in BOOLEAN : TransferToOwner(ok)
    \/ \E ok \in BOOLEAN : RefundExcess(ok)
    \/ \E a \in ReenterPurchaseInputs : ReenterPurchase(a[1], a[2])
    \/ \E a \in ReenterRentInputs : ReenterRent(a[1], a[2], a[3], a[4])
    \/ \E s \in Accounts, ok \in BOOLEAN : EmergencyWithdraw(s, ok)
    \/ Tick
    \/ Acknowledge

Spec == Init /\ [][Next]_vars

\* the registry alone: items are listed and delisted, and readers page through them
CatalogueNext ==
    \/ \E s \in Creators : ListItem(s)
    \/ \E s \in Creators, i \in ItemIdInputs : DelistItem(s, i)
    \/ \E o \in ItemIdInputs, l \in Limits : BrowseItems(o, l)
    \/ Acknowledge

Catalogue == Init /\ [][CatalogueNext]_vars

\* the ledger as its client sees it: one client making calls, while other accounts
\* create items of their own
ClientNext ==
    \/ \E m \in ReadMethods, ok \in BOOLEAN : \E a \in ReadArgs(m) : ClientRead(m, a, ok)
    \/ \E m \in WriteMethods, signer \in BOOLEAN :
          \E a \in WriteArgs(m) : ClientWrite(m, ClientAccount, a, signer)
    \/ ClientSendFails
    \/ Sent("createItem")
          /\ CreateItem(app.caller, app.args[1], app.args[2], app.args[3], app.args[4])
    \/ Sent("purchaseItem") /\ PurchaseItem(app.caller, app.args[1], app.args[2])
    \/ Sent("rentItem")
          /\ RentItem(app.caller, app.args[1], app.args[2], app.args[3], app.args[4])
    \/ Sent("updateItemPrices")
          /\ UpdateItemPrices(app.caller, app.args[1], app.args[2], app.args[3])
    \/ Sent("deactivateItem") /\ DeactivateItem(app.caller, app.args[1])
    \/ \E ok \in BOOLEAN : TransferToOwner(ok)
    \/ \E ok \in BOOLEAN : RefundExcess(ok)
    \/ \E parsed \in BOOLEAN : ClientWait(parsed)
    \/ \E ok \in BOOLEAN : ClientCountFallback(ok)
    \/ ClientReturn
    \/ app.pc # "sent"
          /\ \E s \in Creators \ {ClientAccount} : CreateItem(s, "Paper A", "cid", 200, 60)
    \/ app.pc # "sent" /\ Acknowledge

Client == Init /\ [][ClientNext]_vars

\* the blob store client and the download endpoint in front of it
BlobStoreNext ==
    \/ \E jwt \in BOOLEAN : LoadBlobClient(jwt)
    \/ \E f \in Files, ok \in BOOLEAN, r \in 1 .. MaxRandom : UploadToIPFS(f, ok, r)
    \/ \E c \in CidInputs, ok \in BOOLEAN : Download(c, ok)
    \/ \E c \in CidInputs, ok \in BOOLEAN : DownloadRoute(c, ok)

BlobStore == Init /\ [][BlobStoreNext]_vars

\* one user on the marketplace page, after other accounts have listed their items
MarketplaceNext ==
    \/ app.pc = "none" /\ \E s \in Creators : CreateItem(s, "Paper A", "cid", 200, 60)
    \/ app.pc = "none" /\ Acknowledge
    \/ \E u \in Accounts : OpenMarketplace(u)
    \/ \E i \in 1 .. itemIds, d \in RentDays : PageRentItem(i, d)
    \/ app.pc = "renting"
          /\ RentItem(app.user, app.itemId, app.startTime, app.endTime, app.value)
    \/ \E ok \in BOOLEAN : TransferToOwner(ok)
    \/ PageRentSettled
    \/ PageRefresh
    \/ PageReload
    \/ Seconds

Marketplace == Init /\ [][MarketplaceNext]_vars

====
